---------------------------- MODULE Spec2Model ----------------------------
(***************************************************************************)
(* A model of the news chatbot backend: the retrieval engine               *)
(* (searchSimilar), the embedding gateway (generateEmbeddings), the        *)
(* session store adapter (SessionService over Redis) and the query         *)
(* endpoint (POST /api/query -> ChatService.processQuery).                 *)
(*                                                                         *)
(* The repository holds three variants of the same services:               *)
(*   "server"   src/src/server.js (the optimized single-file server)       *)
(*   "part003"  src/unnamed/part_003 (the earlier single-file server)      *)
(*   "modular"  src/src/services/NewsIngestionService.js, and the          *)
(*              ChatService / SessionService classes held in               *)
(*              src/src/scripts/test-api.js, wired by src/src/controllers  *)
(* A variant is an input of each specification below.                      *)
(***************************************************************************)
EXTENDS Integers, Sequences, FiniteSets, TLC

VARIABLES
    collection,      \* the vector index: the points of 'news_embeddings'
    sCall,           \* the searchSimilar call under way: impl, query, limit
    sOut,            \* what that call gave back to its caller
    embeddingCache,  \* NewsIngestionService.embeddingCache of server.js (a Map)
    eOut,            \* what the last generateEmbeddings call gave back
    eCalls,          \* how many generateEmbeddings calls were made
    cQuery,          \* the query being classified
    cOut,            \* the category found for it
    redis,           \* the Redis keyspace: session hashes, message lists, expiries
    now,             \* the clock, in seconds
    issued,          \* how many session ids uuidv4 has handed out
    ops,             \* how many SessionService calls were made
    ssImpl,          \* the SessionService variant in use
    ssOut,           \* the last SessionService call and what it gave back
    ssPrev,          \* the SessionService call before it
    req,             \* the request the query endpoint is serving
    ing,             \* the ingestNews or initializeVectorDB run under way
    tasks            \* the requests that clients have under way at the same time

searchVars == <<collection, sCall, sOut>>
embedVars == <<embeddingCache, eOut, eCalls>>
classifyVars == <<cQuery, cOut>>
storeVars == <<redis, now, issued, ops>>
sessionVars == <<ssImpl, ssOut, ssPrev>>
queryVars == <<req>>
ingestVars == <<ing>>
concurrentVars == <<tasks>>
vars == <<collection, sCall, sOut, embeddingCache, eOut, eCalls, cQuery, cOut,
          redis, now, issued, ops, ssImpl, ssOut, ssPrev, req, ing, tasks>>

(***************************************************************************)
(* Generic helpers.                                                        *)
(***************************************************************************)
Min(a, b) == IF a < b THEN a ELSE b

\* Array.prototype.slice(0, n)
Take(s, n) == SubSeq(s, 1, Min(n, Len(s)))

\* Array.prototype.filter
RECURSIVE FilterSeq(_, _)
FilterSeq(s, keep) ==
    IF s = <<>> THEN <<>>
    ELSE IF Head(s) \in keep THEN <<Head(s)>> \o FilterSeq(Tail(s), keep)
    ELSE FilterSeq(Tail(s), keep)

Range(s) == {s[i] : i \in 1..Len(s)}

(***************************************************************************)
(* Strings.  A JavaScript string is a TLA+ string; Len, SubSeq and \o act  *)
(* on its characters.                                                      *)
(***************************************************************************)
UpperChars == "ABCDEFGHIJKLMNOPQRSTUVWXYZ"
LowerChars == "abcdefghijklmnopqrstuvwxyz"

\* The lower-case letter of each upper-case letter.
LowerMap ==
    [c \in {SubSeq(UpperChars, i, i) : i \in 1..Len(UpperChars)} |->
        LET i == CHOOSE j \in 1..Len(UpperChars) : SubSeq(UpperChars, j, j) = c
        IN  SubSeq(LowerChars, i, i)]

LowerChar(c) == IF c \in DOMAIN LowerMap THEN LowerMap[c] ELSE c

\* String.prototype.toLowerCase (ASCII letters)
RECURSIVE toLowerCase(_)
toLowerCase(s) ==
    IF Len(s) = 0 THEN ""
    ELSE LowerChar(SubSeq(s, 1, 1)) \o toLowerCase(SubSeq(s, 2, Len(s)))

\* String.prototype.includes
includes(s, k) ==
    \E i \in 1..(Len(s) - Len(k) + 1) : SubSeq(s, i, i + Len(k) - 1) = k

(***************************************************************************)
(* Query classification (searchSimilar, "Detect category-specific query"). *)
(***************************************************************************)
\* The keyword table, in the insertion order Object.entries walks it.
categoryKeywords == <<
    <<"sports", <<"sport", "sports", "football", "basketball", "baseball",
                  "soccer", "tennis", "golf", "hockey", "olympics", "nfl",
                  "nba", "mlb", "espn">> >>,
    <<"technology", <<"tech", "technology", "ai", "artificial intelligence",
                      "computer", "software", "app", "digital">> >>,
    <<"politics", <<"politics", "political", "government", "election",
                    "president", "congress", "senate">> >>,
    <<"business", <<"business", "finance", "economy", "stock", "market",
                    "company", "corporate">> >>,
    <<"crypto", <<"crypto", "cryptocurrency", "bitcoin", "blockchain",
                  "ethereum">> >>,
    <<"world", <<"world", "international", "global", "country", "nation">> >>
>>

\* let targetCategory = null
NoCategory == "null"

\* keywords.some(keyword => queryLower.includes(keyword))
someKeyword(queryLower, keywords) ==
    \E k \in 1..Len(keywords) : includes(queryLower, keywords[k])

\* Mutant: the loop has no break, so the last entry that matches wins.
detectCategoryLastMatch(query) ==
    LET queryLower == toLowerCase(query)
        hit == {i \in 1..Len(categoryKeywords) :
                    someKeyword(queryLower, categoryKeywords[i][2])}
    IN  IF hit = {} THEN NoCategory
        ELSE categoryKeywords[CHOOSE i \in hit : \A j \in hit : i >= j][1]

\* The for ... of loop with its break: the first entry that matches.
detectCategory(query) ==
    LET queryLower == toLowerCase(query)
        hit == {i \in 1..Len(categoryKeywords) :
                    someKeyword(queryLower, categoryKeywords[i][2])}
    IN  IF hit = {} THEN NoCategory
        ELSE categoryKeywords[CHOOSE i \in hit : \A j \in hit : i <= j][1]

(***************************************************************************)
(* The embedding gateway.  A vector is [source, of, dim]: a vector the     *)
(* provider computed for the text `of`, or a synthetic one (768 random     *)
(* numbers, of which only the dimension is kept).  The provider answers a  *)
(* request with one vector per input, in order, or the request raises.     *)
(***************************************************************************)
embeddingDim == 768
batchSize == 10
maxCacheSize == 200

providerVector(text) == [source |-> "provider", of |-> text, dim |-> embeddingDim]
syntheticVector == [source |-> "synthetic", of |-> "", dim |-> embeddingDim]

\* response.data.data.map(item => item.embedding)
providerEmbeddings(batch) == [j \in 1..Len(batch) |-> providerVector(batch[j])]

\* texts.map(() => Array(768).fill(0).map(() => Math.random()))
mockEmbeddings(texts) == [j \in 1..Len(texts) |-> syntheticVector]

\* Array.prototype.join
RECURSIVE join(_, _)
join(texts, sep) ==
    IF Len(texts) = 0 THEN ""
    ELSE IF Len(texts) = 1 THEN texts[1]
    ELSE texts[1] \o sep \o join(Tail(texts), sep)

\* const cacheKey = texts.join('|||')
cacheKey(texts) == join(texts, "|||")

\* The Map, as its entries in insertion order.
MapHas(map, key) == \E i \in 1..Len(map) : map[i].key = key
MapGet(map, key) == map[CHOOSE i \in 1..Len(map) : map[i].key = key].value
MapSet(map, key, value) ==
    IF MapHas(map, key)
    THEN [i \in 1..Len(map) |->
             IF map[i].key = key THEN [key |-> key, value |-> value] ELSE map[i]]
    ELSE Append(map, [key |-> key, value |-> value])

cacheInsertEvictsNewest(cache, key, embeddings) ==
    MapSet(IF Len(cache) >= maxCacheSize THEN SubSeq(cache, 1, Len(cache) - 1) ELSE cache,
           key, embeddings)

\* if (size >= maxCacheSize) delete(keys().next().value); set(cacheKey, embeddings)
cacheInsert(cache, key, embeddings) ==
    MapSet(IF Len(cache) >= maxCacheSize THEN Tail(cache) ELSE cache, key, embeddings)

\* Number of provider requests the batch loop makes for `texts`.
batchCount(texts) == (Len(texts) + batchSize - 1) \div batchSize

\* texts.slice(i, i + batchSize) for the b-th batch
batchOf(texts, b) ==
    SubSeq(texts, (b - 1) * batchSize + 1, Min(b * batchSize, Len(texts)))

\* The for loop over the batches, from batch b on: embeddings.push(...)
RECURSIVE embedBatches(_, _)
embedBatches(texts, b) ==
    IF b > batchCount(texts) THEN <<>>
    ELSE providerEmbeddings(batchOf(texts, b)) \o embedBatches(texts, b + 1)

embeddingFallbackCached(texts, cache, requests) ==
    [status |-> "returned", vectors |-> mockEmbeddings(texts),
     cache |-> cacheInsert(cache, cacheKey(texts), mockEmbeddings(texts)),
     source |-> "fallback", requests |-> requests]

\* Mutant: the catch block rethrows.
embeddingFallbackRethrows(texts, cache, requests) ==
    [status |-> "threw", vectors |-> <<>>, cache |-> cache,
     source |-> "fallback", requests |-> requests]

\* catch (error) { return texts.map(...) }
embeddingFallback(texts, cache, requests) ==
    [status |-> "returned", vectors |-> mockEmbeddings(texts), cache |-> cache,
     source |-> "fallback", requests |-> requests]

\* generateEmbeddings(texts) of server.js on cache `cache`, when the
\* failAt-th provider request raises (0: none does).
generateEmbeddings(texts, cache, failAt) ==
    IF MapHas(cache, cacheKey(texts))
    THEN [status |-> "returned", vectors |-> MapGet(cache, cacheKey(texts)),
          cache |-> cache, source |-> "cache", requests |-> 0]
    ELSE IF failAt \in 1..batchCount(texts)
    THEN embeddingFallback(texts, cache, failAt)
    ELSE LET embeddings == embedBatches(texts, 1)
         IN  [status |-> "returned", vectors |-> embeddings,
              cache |-> cacheInsert(cache, cacheKey(texts), embeddings),
              source |-> "provider", requests |-> batchCount(texts)]

\* generateEmbeddings(texts) of services/NewsIngestionService.js and of
\* part_003: one request for all texts, no cache.
generateEmbeddingsModular(texts, cache, failAt) ==
    IF failAt = 1
    THEN embeddingFallback(texts, cache, 1)
    ELSE [status |-> "returned", vectors |-> providerEmbeddings(texts),
          cache |-> cache, source |-> "provider", requests |-> 1]

(***************************************************************************)
(* The vector index (Qdrant collection 'news_embeddings').  A point is     *)
(* [id, category, score]: its payload's category and the similarity of its *)
(* vector to the query vector of the call under way, in tenths (so that    *)
(* the score_threshold 0.2 of server.js is 2).  The payload's title stands *)
(* for the whole payload and is distinct per point.                        *)
(***************************************************************************)
MaxPoints == 3
MaxLimit == 3
Scores == 1..3
PointCategories == {"sports", "business"}

Points(n) == [1..n -> [category : PointCategories, score : Scores]]

\* Every content of the collection with at most MaxPoints points.
Collections ==
    UNION { { {[id |-> i, category |-> f[i].category, score |-> f[i].score] :
                  i \in 1..n} : f \in Points(n) } : n \in 0..MaxPoints }

NoThreshold == 0

\* The points a search request may return: filter.must[category], and
\* score_threshold (Qdrant drops every hit scoring below it).
Eligible(idx, request) ==
    {p \in idx : /\ (request.filter = NoCategory \/ p.category = request.filter)
                 /\ p.score >= request.score_threshold}

\* qdrantClient.search: the `limit` best eligible points, best first.  The
\* order among equal scores is the index's choice, so this is the set of
\* answers the index may give.
qdrantSearch(idx, request) ==
    LET E == Eligible(idx, request)
        n == Min(request.limit, Cardinality(E))
    IN  {r \in [1..n -> E] :
            /\ \A i, j \in 1..n : i < j => (r[i] # r[j] /\ r[i].score >= r[j].score)
            /\ \A p \in E \ Range(r) : \A i \in 1..n : p.score <= r[i].score}

\* searchResult.map(result => ({ score: result.score, ...result.payload }))
toResults(hits) ==
    [i \in 1..Len(hits) |->
        [score |-> hits[i].score, title |-> hits[i].id, category |-> hits[i].category]]

(***************************************************************************)
(* searchSimilar of services/NewsIngestionService.js and of part_003: the  *)
(* category filtered search with its unfiltered supplement.                *)
(***************************************************************************)
\* Mutant: the filtered search asks for `limit` candidates.
filteredRequestSingle(targetCategory, limit) ==
    [limit |-> limit, filter |-> targetCategory, score_threshold |-> NoThreshold]

\* limit: limit * 2, filter: { must: [{ key: 'category', match: ... }] }
filteredRequest(targetCategory, limit) ==
    [limit |-> limit * 2, filter |-> targetCategory, score_threshold |-> NoThreshold]

\* limit: limit, no filter
generalRequest(limit) ==
    [limit |-> limit, filter |-> NoCategory, score_threshold |-> NoThreshold]

\* Mutant: no deduplication against the filtered hits.
supplementalResultsNoDedup(searchResult, generalSearch) == generalSearch

\* const existingIds = new Set(searchResult.map(r => r.id));
\* generalSearch.filter(r => !existingIds.has(r.id))
supplementalResults(searchResult, generalSearch) ==
    LET existingIds == {searchResult[i].id : i \in 1..Len(searchResult)}
    IN  FilterSeq(generalSearch, {p \in Range(generalSearch) : p.id \notin existingIds})

\* Mutant: the slice(0, limit) is dropped.
combinedResultNoSlice(searchResult, generalSearch, limit) ==
    searchResult \o supplementalResults(searchResult, generalSearch)

\* Mutant: the supplemental hits are spread first.
combinedResultGeneralFirst(searchResult, generalSearch, limit) ==
    Take(supplementalResults(searchResult, generalSearch) \o searchResult, limit)

\* Mutant: the general search replaces the filtered hits.
combinedResultGeneralOnly(searchResult, generalSearch, limit) ==
    Take(generalSearch, limit)

\* [...searchResult, ...supplementalResults].slice(0, limit)
combinedResult(searchResult, generalSearch, limit) ==
    Take(searchResult \o supplementalResults(searchResult, generalSearch), limit)

\* searchResult.slice(0, limit)
enoughResult(searchResult, limit) == Take(searchResult, limit)

\* The queries searchSimilar is called with.
Queries == {
    "Tell me about the NBA finals",
    "bitcoin stock market",
    "latest election results",
    "weather tomorrow" }

\* detectCategory, tabulated once over Queries.
targetCategoryOf == [query \in Queries |-> detectCategory(query)]

\* What a call gave its caller: it returned a list, or it threw.  `hits` is
\* the final searchResult, `searches` the index requests issued in order,
\* `raised` whether one of them raised, `embedding` where the query vector
\* came from.
Returned(hits, searches, category, path, raised, embedding) ==
    [status |-> "returned", hits |-> hits, results |-> toResults(hits),
     searches |-> searches, category |-> category, path |-> path,
     raised |-> raised, embedding |-> embedding.source]

Threw(searches, category, raised, embedding) ==
    [status |-> "threw", hits |-> <<>>, results |-> <<>>,
     searches |-> searches, category |-> category, path |-> "error",
     raised |-> raised, embedding |-> embedding.source]

\* The outcomes of searchSimilar(query, limit) on collection idx, given the
\* outcome `embedding` of generateEmbeddings([query]), when one of the index
\* searches numbered in failAts raises (0: none does).  The catch block
\* rethrows (NewsIngestionService.js); part_003 has no try at all.
searchSimilarModular(query, limit, idx, embedding, failAts) ==
    LET targetCategory == targetCategoryOf[query]
        fr == filteredRequest(targetCategory, limit)
        gr == generalRequest(limit)
    IN  IF embedding.status = "threw"
        THEN {Threw(<<>>, NoCategory, FALSE, embedding)}
        ELSE UNION {
          IF targetCategory # NoCategory
          THEN IF failAt = 1 THEN {Threw(<<fr>>, targetCategory, TRUE, embedding)}
               ELSE UNION {
                  IF Len(searchResult) < limit
                  THEN IF failAt = 2
                       THEN {Threw(<<fr, gr>>, targetCategory, TRUE, embedding)}
                       ELSE {Returned(combinedResult(searchResult, generalSearch, limit),
                                      <<fr, gr>>, targetCategory, "supplemented",
                                      FALSE, embedding) :
                                 generalSearch \in qdrantSearch(idx, gr)}
                  ELSE {Returned(enoughResult(searchResult, limit), <<fr>>,
                                 targetCategory, "filtered", FALSE, embedding)}
                  : searchResult \in qdrantSearch(idx, fr)}
          ELSE IF failAt = 1 THEN {Threw(<<gr>>, targetCategory, TRUE, embedding)}
               ELSE {Returned(searchResult, <<gr>>, targetCategory, "general",
                              FALSE, embedding) :
                         searchResult \in qdrantSearch(idx, gr)}
          : failAt \in failAts}

(***************************************************************************)
(* searchSimilar of server.js: one unfiltered search with a score          *)
(* threshold; its catch block returns the empty list.                      *)
(***************************************************************************)
scoreThreshold == 2

serverRequest(limit) ==
    [limit |-> limit, filter |-> NoCategory, score_threshold |-> scoreThreshold]

\* catch (error) { return []; }
searchErrorServer(searches, raised, embedding) ==
    Returned(<<>>, searches, NoCategory, "error", raised, embedding)

searchSimilarServer(query, limit, idx, embedding, failAts) ==
    LET sr == serverRequest(limit)
    IN  IF embedding.status = "threw"
        THEN {searchErrorServer(<<>>, FALSE, embedding)}
        ELSE UNION {
          IF failAt = 1
          THEN {searchErrorServer(<<sr>>, TRUE, embedding)}
          ELSE {Returned(searchResult, <<sr>>, NoCategory, "general", FALSE, embedding) :
                    searchResult \in qdrantSearch(idx, sr)}
          : failAt \in failAts}

(***************************************************************************)
(* The Redis keyspace.  `keys` are the keys that exist; a session hash is  *)
(* [created_at, message_count] with Missing for a field it does not hold;  *)
(* a message list holds the stringified messages, newest first; `exp` is   *)
(* the time a key expires at, NoExpiry when it has none.                   *)
(***************************************************************************)
Idle == [status |-> "idle"]

\* The ids uuidv4 hands out, in the order it does.
SessionIds == <<"s1", "s2">>

sessionKeyOf(sessionId) == "session:" \o sessionId
messagesKeyOf(sessionId) == "messages:" \o sessionId

Keys == {sessionKeyOf(id) : id \in Range(SessionIds)}
            \cup {messagesKeyOf(id) : id \in Range(SessionIds)}

Missing == -1
NoExpiry == -1
EmptyHash == [created_at |-> Missing, message_count |-> Missing]

EmptyRedis ==
    [keys |-> {}, hash |-> [k \in Keys |-> EmptyHash],
     list |-> [k \in Keys |-> <<>>], exp |-> [k \in Keys |-> NoExpiry]]

\* HSET key field value ...: creates the key when it is absent
redisHSet(r, key, fields) ==
    [r EXCEPT !.keys = @ \cup {key},
              !.hash[key] = [f \in DOMAIN @ |->
                                IF f \in DOMAIN fields THEN fields[f] ELSE @[f]]]

redisHSetNumber(r, key, field, n) ==
    [r EXCEPT !.keys = @ \cup {key}, !.hash[key][field] = n]

\* HINCRBY key field n: an absent key or field counts as 0
redisHIncrBy(r, key, field, n) ==
    [r EXCEPT !.keys = @ \cup {key},
              !.hash[key][field] = (IF @ = Missing THEN 0 ELSE @) + n]

\* LPUSH key value: creates the key when it is absent
redisLPush(r, key, value) ==
    [r EXCEPT !.keys = @ \cup {key}, !.list[key] = <<value>> \o @]

\* EXPIRE key seconds: does nothing to an absent key
redisExpire(r, key, seconds, time) ==
    IF key \in r.keys THEN [r EXCEPT !.exp[key] = time + seconds] ELSE r

\* DEL key
redisDel(r, key) ==
    [r EXCEPT !.keys = @ \ {key}, !.hash[key] = EmptyHash,
              !.list[key] = <<>>, !.exp[key] = NoExpiry]

\* EXISTS key
redisExists(r, key) == IF key \in r.keys THEN 1 ELSE 0

\* LRANGE key start stop: both ends inclusive and zero based, a negative
\* index counts from the tail of the list
redisLRange(r, key, start, stop) ==
    LET l == r.list[key]
        from == IF start < 0 THEN (IF Len(l) + start < 0 THEN 0 ELSE Len(l) + start)
                ELSE start
        to == IF stop < 0 THEN Len(l) + stop ELSE Min(stop, Len(l) - 1)
    IN  IF from > to THEN <<>> ELSE SubSeq(l, from + 1, to + 1)

\* The keys whose time to live has run out are gone.
redisExpireKeys(r, time) ==
    LET dead == {k \in r.keys : r.exp[k] # NoExpiry /\ r.exp[k] <= time}
    IN  [keys |-> r.keys \ dead,
         hash |-> [k \in Keys |-> IF k \in dead THEN EmptyHash ELSE r.hash[k]],
         list |-> [k \in Keys |-> IF k \in dead THEN <<>> ELSE r.list[k]],
         exp |-> [k \in Keys |-> IF k \in dead THEN NoExpiry ELSE r.exp[k]]]

(***************************************************************************)
(* SessionService.  ssImpl "server" is the class of server.js, "modular"   *)
(* the class held in scripts/test-api.js (part_003 has the same methods as *)
(* the modular one).                                                       *)
(***************************************************************************)
ttlSeconds == 3600 * 24
maxMessageLength == 2000

\* JSON.stringify(message) and JSON.parse(msg)
JSONstringify(message) ==
    <<"id", message.id, "role", message.role, "content", message.content,
      "timestamp", message.timestamp>>
JSONparse(text) ==
    [id |-> text[2], role |-> text[4], content |-> text[6], timestamp |-> text[8]]

\* String.prototype.substring(0, n)
substring(str, n) == SubSeq(str, 1, Min(n, Len(str)))

newMessageNoLimit(impl, id, role, content, time) ==
    [id |-> id, role |-> role, content |-> content, timestamp |-> time]

\* const message = { id: uuidv4(), role, content, timestamp }
newMessage(impl, id, role, content, time) ==
    [id |-> id, role |-> role,
     content |-> IF impl = "server" THEN substring(content, maxMessageLength)
                 ELSE content,
     timestamp |-> time]

\* createSession: hSet(sessionKey, {created_at, message_count: '0'}), then
\* expire(sessionKey, 3600 * 24); `done` of the two commands were carried out
createSession(r, sessionId, time, done) ==
    LET r1 == IF done >= 1
              THEN redisHSet(r, sessionKeyOf(sessionId),
                             [created_at |-> time, message_count |-> 0])
              ELSE r
    IN  IF done >= 2 THEN redisExpire(r1, sessionKeyOf(sessionId), ttlSeconds, time)
        ELSE r1

\* addMessage of server.js: one MULTI of lPush, hIncrBy, expire, expire
addMessageServer(r, sessionId, message, time) ==
    LET r1 == redisLPush(r, messagesKeyOf(sessionId), JSONstringify(message))
        r2 == redisHIncrBy(r1, sessionKeyOf(sessionId), "message_count", 1)
        r3 == redisExpire(r2, messagesKeyOf(sessionId), ttlSeconds, time)
    IN  redisExpire(r3, sessionKeyOf(sessionId), ttlSeconds, time)

\* addMessage of the modular class: lPush, hIncrBy, expire(messagesKey),
\* each awaited; `done` of the three commands were carried out
addMessageModular(r, sessionId, message, time, done) ==
    LET r1 == IF done >= 1
              THEN redisLPush(r, messagesKeyOf(sessionId), JSONstringify(message))
              ELSE r
        r2 == IF done >= 2
              THEN redisHIncrBy(r1, sessionKeyOf(sessionId), "message_count", 1)
              ELSE r1
    IN  IF done >= 3 THEN redisExpire(r2, messagesKeyOf(sessionId), ttlSeconds, time)
        ELSE r2

\* getSessionHistory: lRange(messagesKey, 0, limit - 1), parsed, reversed
reverse(s) == [i \in 1..Len(s) |-> s[Len(s) + 1 - i]]

getSessionHistory(r, sessionId, limit) ==
    LET messages == redisLRange(r, messagesKeyOf(sessionId), 0, limit - 1)
    IN  reverse([i \in 1..Len(messages) |-> JSONparse(messages[i])])

resetSessionCounterOnly(r, sessionId, done) ==
    IF done >= 2 THEN redisHSet(r, sessionKeyOf(sessionId), [message_count |-> 0])
    ELSE r

resetSessionRecreate(r, sessionId, done) ==
    LET r1 == IF done >= 1 THEN redisDel(r, messagesKeyOf(sessionId)) ELSE r
    IN  IF done >= 2
        THEN redisHSet(redisDel(r1, sessionKeyOf(sessionId)),
                       sessionKeyOf(sessionId), [message_count |-> 0])
        ELSE r1

\* resetSession: del(messagesKey), hSet(sessionKey, 'message_count', '0');
\* `done` of the two commands were carried out
resetSession(r, sessionId, done) ==
    LET r1 == IF done >= 1 THEN redisDel(r, messagesKeyOf(sessionId)) ELSE r
    IN  IF done >= 2
        THEN redisHSet(r1, sessionKeyOf(sessionId), [message_count |-> 0])
        ELSE r1

\* sessionExists: return await this.redis.exists(sessionKey)
sessionExists(r, sessionId) == redisExists(r, sessionKeyOf(sessionId))

(***************************************************************************)
(* SpecSearch: one searchSimilar call, for every variant, query, limit and *)
(* content of the collection.                                              *)
(***************************************************************************)
Impls == {"server", "part003", "modular"}

InitSearch ==
    /\ collection \in Collections
    /\ sCall \in [impl : Impls, query : Queries, limit : 1..MaxLimit]
    /\ sOut = Idle
    /\ embeddingCache = <<>>
    /\ eOut = Idle
    /\ eCalls = 0
    /\ cQuery = ""
    /\ cOut = Idle
    /\ redis = EmptyRedis
    /\ now = 0
    /\ issued = 0
    /\ ops = 0
    /\ ssImpl = "server"
    /\ ssOut = Idle
    /\ ssPrev = Idle
    /\ req = Idle
    /\ ing = Idle
    /\ tasks = <<>>

\* await newsService.searchSimilar(query, limit), modular and part_003
SearchSimilarModular ==
    /\ sOut = Idle
    /\ sCall.impl \in {"modular", "part003"}
    /\ \E embedFail \in 0..1 :
         LET queryEmbedding == generateEmbeddingsModular(<<sCall.query>>, <<>>, embedFail)
         IN  \E o \in searchSimilarModular(sCall.query, sCall.limit, collection,
                                           queryEmbedding, 0..2) :
                sOut' = o
    /\ UNCHANGED <<collection, sCall, embedVars, classifyVars, storeVars, sessionVars, queryVars, ingestVars, concurrentVars>>

\* await newsService.searchSimilar(query, limit), server.js
SearchSimilarServer ==
    /\ sOut = Idle
    /\ sCall.impl = "server"
    /\ \E embedFail \in 0..1 :
         LET queryEmbedding == generateEmbeddings(<<sCall.query>>, embeddingCache, embedFail)
         IN  /\ embeddingCache' = queryEmbedding.cache
             /\ \E o \in searchSimilarServer(sCall.query, sCall.limit, collection,
                                             queryEmbedding, 0..1) :
                    sOut' = o
    /\ UNCHANGED <<collection, sCall, eOut, eCalls, classifyVars, storeVars, sessionVars, queryVars, ingestVars, concurrentVars>>

NextSearch == SearchSimilarModular \/ SearchSimilarServer

SpecSearch == InitSearch /\ [][NextSearch]_vars

(***************************************************************************)
(* SpecClassify: the classification step of searchSimilar alone, over      *)
(* queries of one or two words.                                            *)
(***************************************************************************)
ClassifyWords == {"NBA", "Spain", "election", "Bitcoin", "stock", "global",
                  "happening", "weather", "hello", "TECH"}

ClassifyQueries ==
    {""} \cup ClassifyWords \cup {w1 \o " " \o w2 : w1, w2 \in ClassifyWords}

InitClassify ==
    /\ cQuery \in ClassifyQueries
    /\ cOut = Idle
    /\ collection = {}
    /\ sCall = Idle
    /\ sOut = Idle
    /\ embeddingCache = <<>>
    /\ eOut = Idle
    /\ eCalls = 0
    /\ redis = EmptyRedis
    /\ now = 0
    /\ issued = 0
    /\ ops = 0
    /\ ssImpl = "server"
    /\ ssOut = Idle
    /\ ssPrev = Idle
    /\ req = Idle
    /\ ing = Idle
    /\ tasks = <<>>

\* const queryLower = query.toLowerCase(); for (...) { ... break; }
DetectCategory ==
    /\ cOut = Idle
    /\ cOut' = [status |-> "classified", category |-> detectCategory(cQuery)]
    /\ UNCHANGED <<cQuery, searchVars, embedVars, storeVars, sessionVars, queryVars, ingestVars, concurrentVars>>

NextClassify == DetectCategory

SpecClassify == InitClassify /\ [][NextClassify]_vars

(***************************************************************************)
(* SpecEmbed: sequences of generateEmbeddings calls on one service         *)
(* instance.                                                               *)
(***************************************************************************)
MaxCalls == 2

Texts == {"a", "a|||a"}

\* Lists of one text repeated, filling one batch exactly and one batch
\* plus one text.
LongLists == {[i \in 1..n |-> "a"] : n \in {batchSize, batchSize + 1}}

TextLists ==
    {<<>>} \cup {<<t>> : t \in Texts} \cup {<<t, u>> : t, u \in Texts} \cup LongLists

InitEmbed ==
    /\ embeddingCache = <<>>
    /\ eOut = Idle
    /\ eCalls = 0
    /\ collection = {}
    /\ sCall = Idle
    /\ sOut = Idle
    /\ cQuery = ""
    /\ cOut = Idle
    /\ redis = EmptyRedis
    /\ now = 0
    /\ issued = 0
    /\ ops = 0
    /\ ssImpl = "server"
    /\ ssOut = Idle
    /\ ssPrev = Idle
    /\ req = Idle
    /\ ing = Idle
    /\ tasks = <<>>

embedOutcome(impl, texts, failAt, r) ==
    [impl |-> impl, texts |-> texts, status |-> r.status, vectors |-> r.vectors,
     source |-> r.source, requests |-> r.requests,
     providerFailed |-> (r.source # "cache" /\ failAt # 0)]

\* await this.generateEmbeddings(texts), server.js
GenerateEmbeddingsServer ==
    /\ eCalls < MaxCalls
    /\ \E texts \in TextLists :
         \E failAt \in 0..batchCount(texts) :
            LET r == generateEmbeddings(texts, embeddingCache, failAt)
            IN  /\ embeddingCache' = r.cache
                /\ eOut' = embedOutcome("server", texts, failAt, r)
    /\ eCalls' = eCalls + 1
    /\ UNCHANGED <<searchVars, classifyVars, storeVars, sessionVars, queryVars, ingestVars, concurrentVars>>

\* await this.generateEmbeddings(texts), NewsIngestionService.js / part_003
GenerateEmbeddingsModular ==
    /\ eCalls < MaxCalls
    /\ \E texts \in TextLists :
         \E failAt \in 0..1 :
            LET r == generateEmbeddingsModular(texts, embeddingCache, failAt)
            IN  eOut' = embedOutcome("modular", texts, failAt, r)
    /\ eCalls' = eCalls + 1
    /\ UNCHANGED <<embeddingCache, searchVars, classifyVars, storeVars, sessionVars, queryVars, ingestVars, concurrentVars>>

NextEmbed == GenerateEmbeddingsServer \/ GenerateEmbeddingsModular

SpecEmbed == InitEmbed /\ [][NextEmbed]_vars

(***************************************************************************)
(* SpecSession: a client calls the SessionService methods one after the    *)
(* other while time passes.  A call that sends its commands one by one    *)
(* may lose the store between two of them, and then throws.                *)
(***************************************************************************)
MaxOps == 3
MaxTicks == 2
MaxHistoryLimit == 2

RECURSIVE repeat(_, _)
repeat(str, n) ==
    IF n = 0 THEN ""
    ELSE LET half == repeat(str, n \div 2)
         IN  half \o half \o (IF n % 2 = 1 THEN str ELSE "")

Roles == {"user", "bot"}
Contents == {"hi", repeat("x", maxMessageLength) \o "y"}
SessionImpls == {"server", "modular"}

Call(op, sessionId, role, content, limit, status, result) ==
    [op |-> op, sessionId |-> sessionId, role |-> role, content |-> content,
     limit |-> limit, status |-> status, result |-> result]

InitSession ==
    /\ redis = EmptyRedis
    /\ now = 0
    /\ issued = 0
    /\ ops = 0
    /\ ssImpl \in SessionImpls
    /\ ssOut = Idle
    /\ ssPrev = Idle
    /\ req = Idle
    /\ ing = Idle
    /\ tasks = <<>>
    /\ collection = <<>>
    /\ sCall = Idle
    /\ sOut = Idle
    /\ embeddingCache = <<>>
    /\ eOut = Idle
    /\ eCalls = 0
    /\ cQuery = ""
    /\ cOut = Idle

\* The ids a client holds: the ones uuidv4 made for createSession.
KnownIds == {SessionIds[i] : i \in 1..issued}

called(call) ==
    /\ ops < MaxOps
    /\ ops' = ops + 1
    /\ ssPrev' = ssOut
    /\ ssOut' = call
    /\ UNCHANGED <<now, ssImpl, searchVars, embedVars, classifyVars, queryVars, ingestVars, concurrentVars>>

\* const sessionId = await sessionService.createSession(); the store may
\* become unreachable before either of its two commands
CreateSession ==
    /\ issued < Len(SessionIds)
    /\ \E done \in 0..2 :
          LET sessionId == SessionIds[issued + 1] IN
          /\ redis' = createSession(redis, sessionId, now, done)
          /\ called(Call("createSession", sessionId, "", "", 0,
                         IF done = 2 THEN "ok" ELSE "threw", sessionId))
    /\ issued' = issued + 1

\* await sessionService.addMessage(sessionId, role, content); the MULTI of
\* server.js is carried out as a whole, the modular class may lose the store
\* after its first or its second command
AddMessage ==
    \E sessionId \in KnownIds, role \in Roles, content \in Contents :
        LET message == newMessage(ssImpl, ops + 1, role, content, now)
        IN  /\ \/ /\ ssImpl = "server"
                  /\ redis' = addMessageServer(redis, sessionId, message, now)
                  /\ called(Call("addMessage", sessionId, role, content, 0,
                                 "ok", message))
               \/ /\ ssImpl = "modular"
                  /\ \E done \in 1..3 :
                        /\ redis' = addMessageModular(redis, sessionId, message, now, done)
                        /\ called(Call("addMessage", sessionId, role, content, 0,
                                       IF done = 3 THEN "ok" ELSE "threw", message))
            /\ UNCHANGED issued

\* await sessionService.getSessionHistory(sessionId, limit)
GetSessionHistory ==
    \E sessionId \in KnownIds, limit \in 0..MaxHistoryLimit :
        /\ called(Call("getSessionHistory", sessionId, "", "", limit, "ok",
                       getSessionHistory(redis, sessionId, limit)))
        /\ UNCHANGED <<redis, issued>>

\* await sessionService.resetSession(sessionId); a MULTI in server.js, two
\* awaited commands in the modular class
ResetSession ==
    \E sessionId \in KnownIds, done \in 1..2 :
        /\ ssImpl = "server" => done = 2
        /\ redis' = resetSession(redis, sessionId, done)
        /\ called(Call("resetSession", sessionId, "", "", 0,
                       IF done = 2 THEN "ok" ELSE "threw", done = 2))
        /\ UNCHANGED issued

\* await sessionService.sessionExists(sessionId)
SessionExists ==
    \E sessionId \in KnownIds :
        /\ called(Call("sessionExists", sessionId, "", "", 0, "ok",
                       sessionExists(redis, sessionId)))
        /\ UNCHANGED <<redis, issued>>

\* Half a time to live goes by, and the keys that ran out of time are gone.
Tick ==
    /\ now < MaxTicks * (ttlSeconds \div 2)
    /\ now' = now + ttlSeconds \div 2
    /\ redis' = redisExpireKeys(redis, now')
    /\ ssPrev' = ssOut
    /\ ssOut' = [status |-> "tick"]
    /\ UNCHANGED <<issued, ops, ssImpl, searchVars, embedVars, classifyVars, queryVars, ingestVars, concurrentVars>>

NextSession ==
    \/ CreateSession
    \/ AddMessage
    \/ GetSessionHistory
    \/ ResetSession
    \/ SessionExists
    \/ Tick

SpecSession == InitSession /\ [][NextSession]_vars

(***************************************************************************)
(* SpecStored: the same client, on a store that already holds session s1   *)
(* and the log of its earlier exchanges, within one time to live.          *)
(***************************************************************************)
MaxStored == 2

\* The store after createSession and n addMessage, user and bot in turn; the
\* ids of these messages are below the ids of the messages added later.
RECURSIVE storedLog(_, _)
storedLog(impl, n) ==
    IF n = 0 THEN createSession(EmptyRedis, SessionIds[1], 0, 2)
    ELSE LET message == newMessage(impl, n - MaxStored,
                                   IF n % 2 = 1 THEN "user" ELSE "bot", "hi", 0)
         IN  IF impl = "server"
             THEN addMessageServer(storedLog(impl, n - 1), SessionIds[1], message, 0)
             ELSE addMessageModular(storedLog(impl, n - 1), SessionIds[1], message, 0, 3)

InitStored ==
    /\ ssImpl \in SessionImpls
    /\ \E n \in 0..MaxStored : redis = storedLog(ssImpl, n)
    /\ now = 0
    /\ issued = 1
    /\ ops = 0
    /\ ssOut = Idle
    /\ ssPrev = Idle
    /\ req = Idle
    /\ ing = Idle
    /\ tasks = <<>>
    /\ collection = <<>>
    /\ sCall = Idle
    /\ sOut = Idle
    /\ embeddingCache = <<>>
    /\ eOut = Idle
    /\ eCalls = 0
    /\ cQuery = ""
    /\ cOut = Idle

NextStored ==
    \/ AddMessage
    \/ GetSessionHistory
    \/ ResetSession
    \/ SessionExists

SpecStored == InitStored /\ [][NextStored]_vars

(***************************************************************************)
(* SpecQuery: the query endpoint serves one request, from the body it got  *)
(* to the response it sends and to the messages it stores.  req.impl       *)
(* "server" is app.post('/api/query') with the ChatService of server.js,   *)
(* "modular" is processQuery of chatController.js with the ChatService     *)
(* held in scripts/test-api.js.  Every await is a step; the store, the     *)
(* index and the model may fail whenever they are asked.                   *)
(***************************************************************************)
maxRetries == 2
backoffMs == 1000
serverSearchLimit == 3
serverHistoryLimit == 4
modularSearchLimit == 5
modularHistoryLimit == 10

RequiredText == "Session ID and message are required"
NotFoundText == "Session not found"
ProcessFailedText == "Failed to process query"
GenerateFailedText == "Failed to generate response"
StoreErrorText == "The client is closed"
NoArticlesText ==
    "I don't have any recent news articles that match your query. Please try asking about different topics or check back later as I regularly update my news database."
AnswerText == "answer"

\* !value of a field of req.body
falsy(body, field) == field \notin DOMAIN body \/ body[field] = ""

invalidRequestSessionOnly(body) == falsy(body, "sessionId")

\* if (!sessionId || !message)
invalidRequest(body) == falsy(body, "sessionId") \/ falsy(body, "message")

QueryMessages == {"", "Tell me about the NBA finals", "weather tomorrow"}
QuerySessionIds == {""} \cup Range(SessionIds)
Bodies ==
    {[sessionId |-> s, message |-> m] : s \in QuerySessionIds, m \in QueryMessages}
        \cup {[sessionId |-> s] : s \in QuerySessionIds}
        \cup {[message |-> m] : m \in QueryMessages}

QueryCollections == {c \in Collections : Cardinality(c) <= 1}

\* The store before the request: session s1 was created, and may have had
\* one exchange; s2 was not.
QueryStores(impl) ==
    LET created == createSession(EmptyRedis, SessionIds[1], 0, 2)
        asked == newMessage(impl, 1, "user", "hi", 0)
        answered == newMessage(impl, 2, "bot", AnswerText, 0)
    IN  {created,
         IF impl = "server"
         THEN addMessageServer(addMessageServer(created, SessionIds[1], asked, 0),
                               SessionIds[1], answered, 0)
         ELSE addMessageModular(addMessageModular(created, SessionIds[1], asked, 0, 3),
                                SessionIds[1], answered, 0, 3)}

InitQuery ==
    /\ \E impl \in {"server", "modular"} :
          /\ redis \in QueryStores(impl)
          /\ \E body \in Bodies, model \in {"answers", "silent"} :
                req = [impl |-> impl, body |-> body, model |-> model,
                     pc |-> "received", status |-> 0, cause |-> "",
                     thrown |-> "", error |-> "", exists |-> "unasked", pending |-> {},
                     fulfilled |-> <<>>, raised |-> FALSE,
                     news |-> <<>>, history |-> <<>>, attempt |-> 0, delays |-> <<>>,
                     outcomes |-> <<>>, content |-> "", sources |-> <<>>,
                     stored |-> 0, existsCalls |-> 0, searches |-> 0,
                     histories |-> 0, generations |-> 0, adds |-> 0, storeErrors |-> 0,
                       store0 |-> redis]
    /\ collection \in QueryCollections
    /\ ing = Idle
    /\ tasks = <<>>
    /\ now = 0
    /\ issued = 1
    /\ ops = 0
    /\ ssImpl = "server"
    /\ ssOut = Idle
    /\ ssPrev = Idle
    /\ sCall = Idle
    /\ sOut = Idle
    /\ embeddingCache = <<>>
    /\ eOut = Idle
    /\ eCalls = 0
    /\ cQuery = ""
    /\ cOut = Idle

\* res.status(code).json({ error }), and the handler is over
respond(r, code, text) == [r EXCEPT !.status = code, !.error = text, !.pc = "done"]

\* catch (error) { throw new Error('Failed to generate response') } of
\* processQuery: the error it throws, whatever step `cause` threw
processQueryError(cause) == GenerateFailedText

\* catch (error) of processQuery, then catch (error) of the endpoint:
\* server.js answers error.message, chatController.js a fixed text; `cause`
\* is the step that threw
failed(r, cause) ==
    respond([r EXCEPT !.pending = {}, !.cause = cause,
                      !.thrown = processQueryError(cause)],
            500, IF r.impl = "server" THEN processQueryError(cause) ELSE ProcessFailedText)

\* sources: relevantNews.map(news => ({ title: news.title, ... }))
extractSources(relevantNews) ==
    [i \in 1..Len(relevantNews) |-> relevantNews[i].title]

attemptFailedNoRetry(r) == failed(r, "generation")

attemptFailedThenStores(r) ==
    IF r.attempt = maxRetries
    THEN [r EXCEPT !.cause = "generation", !.status = 500, !.error = GenerateFailedText,
                   !.content = GenerateFailedText, !.adds = @ + 2, !.pc = "storing"]
    ELSE [r EXCEPT !.pc = "backoff", !.delays = Append(@, backoffMs * r.attempt)]

\* setTimeout(resolve, 1000 * attempt): the wait after this failed attempt
backoffDelay(attempt) == backoffMs * attempt

\* catch (error) of generateResponseWithTimeout: throw after the last attempt
\* of the budget, else wait 1000 * attempt ms before the next one
attemptFailed(r) ==
    IF r.attempt = maxRetries THEN failed(r, "generation")
    ELSE [r EXCEPT !.pc = "backoff", !.delays = Append(@, backoffDelay(r.attempt))]

\* the retrieval of server.js is over: the prompt is built and the first
\* generateContent is sent
generating(r) ==
    [r EXCEPT !.pc = "generating", !.attempt = 1, !.generations = @ + 1]

\* const { sessionId, message } = req.body; if (!sessionId || !message) ...;
\* sessionService.sessionExists(sessionId) is sent
Validate ==
    /\ req.pc = "received"
    /\ req' = IF invalidRequest(req.body)
            THEN respond(req, 400, RequiredText)
            ELSE [req EXCEPT !.pc = "sessionExists", !.existsCalls = @ + 1]
    /\ UNCHANGED <<searchVars, embedVars, classifyVars, storeVars, sessionVars, ingestVars, concurrentVars>>

\* const sessionExists = await ...; if (!sessionExists) return 404;
\* chatService.processQuery(sessionId, message) starts its retrieval
SessionExistsReplied ==
    /\ req.pc = "sessionExists"
    /\ \E ok \in BOOLEAN :
          req' = IF ~ok
               THEN respond([req EXCEPT !.exists = "error"], 500,
                            IF req.impl = "server" THEN StoreErrorText
                            ELSE ProcessFailedText)
               ELSE IF sessionExists(redis, req.body.sessionId) = 0
               THEN respond([req EXCEPT !.exists = "no"], 404, NotFoundText)
               ELSE IF req.impl = "server"
               THEN [req EXCEPT !.exists = "yes", !.pc = "retrieving",
                              !.pending = {"search", "history"},
                              !.searches = @ + 1, !.histories = @ + 1]
               ELSE [req EXCEPT !.exists = "yes", !.pc = "searching",
                              !.searches = @ + 1]
    /\ UNCHANGED <<searchVars, embedVars, classifyVars, storeVars, sessionVars, ingestVars, concurrentVars>>

\* this.newsService.searchSimilar(userMessage, 3) of Promise.all settles;
\* it never rejects
SearchRepliedServer ==
    /\ req.impl = "server" /\ req.pc = "retrieving" /\ "search" \in req.pending
    /\ \E embedFail \in 0..1 :
         LET queryEmbedding ==
                 generateEmbeddings(<<req.body.message>>, embeddingCache, embedFail)
         IN  /\ embeddingCache' = queryEmbedding.cache
             /\ \E o \in searchSimilarServer(req.body.message, serverSearchLimit,
                                             collection, queryEmbedding, 0..1) :
                   LET r == [req EXCEPT !.news = o.results, !.pending = @ \ {"search"},
                                        !.fulfilled = Append(@, "search"),
                                        !.raised = o.raised]
                   IN  req' = IF r.pending = {} THEN generating(r) ELSE r
    /\ UNCHANGED <<searchVars, eOut, eCalls, classifyVars, storeVars, sessionVars, ingestVars, concurrentVars>>

\* this.sessionService.getSessionHistory(sessionId, 4) of Promise.all settles
HistoryRepliedServer ==
    /\ req.impl = "server" /\ req.pc = "retrieving" /\ "history" \in req.pending
    /\ \E ok \in BOOLEAN :
          LET r == [req EXCEPT !.history = getSessionHistory(redis, req.body.sessionId,
                                                           serverHistoryLimit),
                             !.pending = @ \ {"history"},
                             !.fulfilled = Append(@, "history")]
          IN  req' = IF ~ok THEN failed(req, "history")
                   ELSE IF r.pending = {} THEN generating(r) ELSE r
    /\ UNCHANGED <<searchVars, embedVars, classifyVars, storeVars, sessionVars, ingestVars, concurrentVars>>

\* const relevantNews = await this.newsService.searchSimilar(userMessage, 5);
\* getSessionHistory(sessionId, 10) is sent
SearchRepliedModular ==
    /\ req.impl = "modular" /\ req.pc = "searching"
    /\ \E embedFail \in 0..1 :
         LET queryEmbedding == generateEmbeddingsModular(<<req.body.message>>, <<>>, embedFail)
         IN  \E o \in searchSimilarModular(req.body.message, modularSearchLimit,
                                           collection, queryEmbedding, 0..2) :
                req' = IF o.status = "threw"
                     THEN failed([req EXCEPT !.raised = o.raised], "search")
                     ELSE [req EXCEPT !.news = o.results, !.pc = "history",
                                    !.fulfilled = Append(@, "search"),
                                    !.histories = @ + 1]
    /\ UNCHANGED <<searchVars, embedVars, classifyVars, storeVars, sessionVars, ingestVars, concurrentVars>>

\* const history = await this.sessionService.getSessionHistory(sessionId, 10);
\* with no article the fixed answer is stored, else generateContent is sent
HistoryRepliedModular ==
    /\ req.impl = "modular" /\ req.pc = "history"
    /\ \E ok \in BOOLEAN :
          LET r == [req EXCEPT !.history = getSessionHistory(redis, req.body.sessionId,
                                                           modularHistoryLimit),
                             !.fulfilled = Append(@, "history")]
          IN  req' = IF ~ok THEN failed(req, "history")
                   ELSE IF Len(r.news) = 0
                   THEN [r EXCEPT !.content = NoArticlesText, !.pc = "storing",
                                  !.adds = @ + 1]
                   ELSE [r EXCEPT !.pc = "generating", !.attempt = 1,
                                  !.generations = @ + 1]
    /\ UNCHANGED <<searchVars, embedVars, classifyVars, storeVars, sessionVars, ingestVars, concurrentVars>>

\* generateResponseWithTimeout settles an attempt: the text or an error of
\* a model that answers, or the 10 second timeout.  After the text
\* storeMessagesAsync sends both addMessage and is not awaited, so the
\* response goes out.
GenerateRepliedServer ==
    /\ req.impl = "server" /\ req.pc = "generating"
    /\ \E outcome \in {"text", "error", "timeout"} :
          /\ req.model = "silent" => outcome = "timeout"
          /\ LET r == [req EXCEPT !.outcomes = Append(@, outcome)]
             IN  req' = IF outcome = "text"
                        THEN [r EXCEPT !.content = AnswerText, !.adds = @ + 2,
                                       !.sources = extractSources(r.news),
                                       !.status = 200, !.pc = "storing"]
                        ELSE attemptFailed(r)
    /\ UNCHANGED <<searchVars, embedVars, classifyVars, storeVars, sessionVars, ingestVars, concurrentVars>>

\* await new Promise(resolve => setTimeout(resolve, 1000 * attempt)), and
\* the next attempt
BackoffElapsed ==
    /\ req.pc = "backoff"
    /\ req' = [req EXCEPT !.pc = "generating", !.attempt = @ + 1,
                          !.generations = @ + 1]
    /\ UNCHANGED <<searchVars, embedVars, classifyVars, storeVars, sessionVars, ingestVars, concurrentVars>>

\* const result = await this.model.generateContent(prompt): one attempt,
\* with no timeout; addMessage(sessionId, 'user', userMessage) is sent
GenerateRepliedModular ==
    /\ req.impl = "modular" /\ req.pc = "generating"
    /\ req.model = "answers"
    /\ \E outcome \in {"text", "error"} :
          LET r == [req EXCEPT !.outcomes = Append(@, outcome)]
          IN  req' = IF outcome = "text"
                     THEN [r EXCEPT !.content = AnswerText, !.pc = "storing",
                                    !.adds = @ + 1]
                     ELSE failed(r, "generation")
    /\ UNCHANGED <<searchVars, embedVars, classifyVars, storeVars, sessionVars, ingestVars, concurrentVars>>

\* The message of the exchange that is stored next, the user's then the bot's.
nextMessage(r, time) ==
    IF r.stored = 0
    THEN newMessage(r.impl, 3, "user", r.body.message, time)
    ELSE newMessage(r.impl, 4, "bot", r.content, time)

\* One MULTI of storeMessagesAsync is carried out, or fails; the catch of
\* storeMessagesAsync logs the failure.  req.stored counts the addMessage
\* calls that have settled.
StoreRepliedServer ==
    /\ req.impl = "server" /\ req.pc = "storing"
    /\ \E ok \in BOOLEAN :
          /\ redis' = IF ok
                      THEN addMessageServer(redis, req.body.sessionId,
                                            nextMessage(req, now), now)
                      ELSE redis
          /\ req' = [req EXCEPT !.stored = @ + 1,
                                !.storeErrors = @ + (IF ok THEN 0 ELSE 1),
                                !.pc = IF req.stored = 1 THEN "done" ELSE @]
    /\ UNCHANGED <<now, issued, ops, searchVars, embedVars, classifyVars, sessionVars, ingestVars, concurrentVars>>

\* await this.sessionService.addMessage(...) of the modular ChatService:
\* the user's message, then the bot's, then the response
StoreRepliedModular ==
    /\ req.impl = "modular" /\ req.pc = "storing"
    /\ \E done \in 0..3 :
          /\ redis' = addMessageModular(redis, req.body.sessionId,
                                        nextMessage(req, now), now, done)
          /\ LET r == [req EXCEPT !.stored = @ + 1]
             IN  req' = IF done < 3
                        THEN failed([r EXCEPT !.storeErrors = @ + 1], "store")
                        ELSE IF req.stored = 1
                        THEN respond([r EXCEPT !.sources = extractSources(r.news)],
                                     200, "")
                        ELSE [r EXCEPT !.adds = @ + 1]
    /\ UNCHANGED <<now, issued, ops, searchVars, embedVars, classifyVars, sessionVars, ingestVars, concurrentVars>>

NextQuery ==
    \/ Validate
    \/ SessionExistsReplied
    \/ SearchRepliedServer
    \/ HistoryRepliedServer
    \/ SearchRepliedModular
    \/ HistoryRepliedModular
    \/ GenerateRepliedServer
    \/ BackoffElapsed
    \/ GenerateRepliedModular
    \/ StoreRepliedServer
    \/ StoreRepliedModular

SpecQuery == InitQuery /\ [][NextQuery]_vars

\* Every reply that is awaited arrives and every timer that was set fires:
\* a step the handler can take is taken.
SpecQueryLive == InitQuery /\ [][NextQuery]_vars /\ WF_vars(NextQuery)

(***************************************************************************)
(* Ingestion: scrapeNews and ingestNews.  A source is a feed URL (with the  *)
(* category rssSources.js files it under); what it serves is Down, when the *)
(* GET or the parse throws, or the items it lists, each [title,             *)
(* description, link] as read after trim().  A point of the collection is   *)
(* here [id, vector, title, content, url, category]; the id is the n-th id  *)
(* uuidv4 made.  req.impl "server" is server.js, "modular" is               *)
(* services/NewsIngestionService.js.                                        *)
(***************************************************************************)
minTitleLength == 10
minContentLength == 50
articlesPerCategory == 15
maxTotalArticles == 200
perSourceLimit == 10
scrapeLimit == 100
embedContentLimit == 500
storedContentLimit == 1000

Down == [status |-> "down", items |-> <<>>]

IngestSources == <<
    [url |-> "https://feeds.bbci.co.uk/news/world/rss.xml", category |-> "world"],
    [url |-> "https://feeds.bbci.co.uk/news/politics/rss.xml", category |-> "politics"] >>

\* if (title && title.length > 10 && description && description.length > 50)
longEnough(title, description) ==
    /\ title # "" /\ Len(title) > minTitleLength
    /\ description # "" /\ Len(description) > minContentLength

\* const article = { id: uuidv4(), title, content: description, url: link, ... }
newArticle(id, item, category) ==
    [id |-> id, title |-> item.title, content |-> item.description,
     url |-> item.link, category |-> category]

\* items.each(...) of services/NewsIngestionService.js from item i on: an item
\* is pushed while the category and the total are under their caps and its
\* title and description are long enough
RECURSIVE eachItemModular(_, _, _, _, _, _)
eachItemModular(items, i, category, articles, categoryCount, uuids) ==
    IF i > Len(items)
    THEN [articles |-> articles, categoryCount |-> categoryCount, uuids |-> uuids]
    ELSE IF /\ categoryCount < articlesPerCategory
            /\ Len(articles) < maxTotalArticles
            /\ longEnough(items[i].title, items[i].description)
    THEN eachItemModular(items, i + 1, category,
                         Append(articles, newArticle(uuids + 1, items[i], category)),
                         categoryCount + 1, uuids + 1)
    ELSE eachItemModular(items, i + 1, category, articles, categoryCount, uuids)

\* $('item').each(...) of server.js from item i on: the first 10 items of
\* the source are pushed, whatever their lengths; server.js records no category
RECURSIVE eachItemServer(_, _, _, _)
eachItemServer(items, i, sourceArticles, uuids) ==
    IF i > Len(items)
    THEN [articles |-> sourceArticles, uuids |-> uuids]
    ELSE IF Len(sourceArticles) < perSourceLimit
    THEN eachItemServer(items, i + 1,
                        Append(sourceArticles, newArticle(uuids + 1, items[i], NoCategory)),
                        uuids + 1)
    ELSE eachItemServer(items, i + 1, sourceArticles, uuids)

\* articles.filter(article => article.title && article.title.length > 10 && ...)
validArticles(articles) ==
    FilterSeq(articles, {a \in Range(articles) : longEnough(a.title, a.content)})

\* texts: `${article.title}\n${article.content}`; server.js cuts the content
\* at 500 characters
textsOf(impl, articles) ==
    [i \in 1..Len(articles) |->
        articles[i].title \o "\n" \o
        (IF impl = "server" THEN substring(articles[i].content, embedContentLimit)
         ELSE articles[i].content)]

\* embeddings[index] past the end of embeddings
undefinedVector == [source |-> "undefined", of |-> "", dim |-> 0]

\* points: { id: article.id, vector: embeddings[index], payload: {...} };
\* server.js stores the first 1000 characters of the content
pointsOf(impl, articles, embeddings) ==
    [i \in 1..Len(articles) |->
        [id |-> articles[i].id,
         vector |-> IF i <= Len(embeddings) THEN embeddings[i] ELSE undefinedVector,
         title |-> articles[i].title,
         content |-> IF impl = "server"
                     THEN substring(articles[i].content, storedContentLimit)
                     ELSE articles[i].content,
         url |-> articles[i].url,
         category |-> articles[i].category]]

\* qdrantClient.upsert(collectionName, { wait: true, points }): a point
\* replaces the point that has its id
upsert(idx, points) ==
    {p \in idx : \A i \in 1..Len(points) : points[i].id # p.id} \cup Range(points)

(***************************************************************************)
(* SpecIngest: ingestNews is run, once or again, over feeds that stay as    *)
(* they are; a source may be down, and the embedding provider and the       *)
(* index may fail when asked.  Every await is a step.                       *)
(***************************************************************************)
MaxItems == 2
MaxRuns == 2

\* An item with a title and a description just over the minimum lengths,
\* one whose title and one whose description has just the minimum length.
ItemKinds == {
    [title |-> repeat("t", minTitleLength + 1), description |-> repeat("d", minContentLength + 1)],
    [title |-> repeat("t", minTitleLength), description |-> repeat("d", minContentLength + 1)],
    [title |-> repeat("t", minTitleLength + 1), description |-> repeat("d", minContentLength)] }

FeedsOf(s) ==
    {Down} \cup
    UNION { { [status |-> "ok",
               items |-> [i \in 1..n |->
                            [title |-> f[i].title, description |-> f[i].description,
                             link |-> [source |-> s, item |-> i]]]] :
                 f \in [1..n -> ItemKinds] } : n \in 0..MaxItems }

InitIngest ==
    /\ \E impl \in {"server", "modular"} :
       \E feeds \in [1..Len(IngestSources) -> UNION {FeedsOf(s) : s \in 1..Len(IngestSources)}] :
          /\ \A s \in 1..Len(IngestSources) : feeds[s] \in FeedsOf(s)
          /\ ing = [impl |-> impl, feeds |-> feeds, run |-> 0, pc |-> "idle",
                    next |-> 0, pending |-> {}, attempted |-> {}, down |-> {},
                    fetched |-> [s \in 1..Len(IngestSources) |-> <<>>],
                    articles |-> <<>>, categoryCount |-> 0, valid |-> <<>>,
                    vectors |-> <<>>, uuids |-> 0, results |-> <<>>]
    /\ collection = {}
    /\ embeddingCache = <<>>
    /\ sCall = Idle
    /\ sOut = Idle
    /\ eOut = Idle
    /\ eCalls = 0
    /\ cQuery = ""
    /\ cOut = Idle
    /\ redis = EmptyRedis
    /\ now = 0
    /\ issued = 0
    /\ ops = 0
    /\ ssImpl = "server"
    /\ ssOut = Idle
    /\ ssPrev = Idle
    /\ req = Idle
    /\ tasks = <<>>

\* ingestNews returns `count`, or throws, at the step it was at (`at`); `idx`
\* is the collection it leaves
finished(r, status, count, idx) ==
    [r EXCEPT !.pc = "idle", !.next = 0, !.pending = {},
              !.results = Append(@, [status |-> status, count |-> count, at |-> r.pc,
                                     attempted |-> r.attempted, down |-> r.down,
                                     stored |-> idx])]

\* scrapeNews of NewsIngestionService.js returned: ingestNews returns 0
\* when there is no article, or no article long enough, else it sends the
\* texts to the embedding provider
scrapedModular(r, idx) ==
    IF Len(r.articles) = 0 THEN finished(r, "returned", 0, idx)
    ELSE IF Len(validArticles(r.articles)) = 0 THEN finished(r, "returned", 0, idx)
    ELSE [r EXCEPT !.valid = validArticles(r.articles), !.pc = "embedding"]

\* Mutant: the catch of a source rethrows, which ends scrapeNews and ingestNews.
sourceDownAborts(r, s, idx) ==
    finished([r EXCEPT !.attempted = @ \cup {s}, !.down = @ \cup {s}], "threw", 0, idx)

\* catch (error) { logger.error(...); continue; } of scrapeNews
\* (NewsIngestionService.js), once the GET of source s or its parse threw
sourceDownModular(r, s, idx) ==
    LET r1 == [r EXCEPT !.attempted = @ \cup {s}, !.down = @ \cup {s}, !.next = s + 1]
    IN  IF s = Len(IngestSources) THEN scrapedModular(r1, idx) ELSE r1

\* the feed of source s was read by scrapeNews of NewsIngestionService.js
sourceReadModular(r, s, idx) ==
    LET count == IF s > 1 /\ IngestSources[s - 1].category = IngestSources[s].category
                 THEN r.categoryCount ELSE 0
        e == eachItemModular(r.feeds[s].items, 1, IngestSources[s].category, r.articles,
                             count, r.uuids)
        r1 == [r EXCEPT !.attempted = @ \cup {s}, !.next = s + 1,
                        !.articles = e.articles, !.categoryCount = e.categoryCount,
                        !.uuids = e.uuids]
    IN  IF s = Len(IngestSources) THEN scrapedModular(r1, idx) ELSE r1

\* Promise.allSettled(promises) of server.js settled: the articles of the
\* sources in the order of rssSources, cut at 100, go to the embedding provider
RECURSIVE concat(_, _)
concat(lists, s) == IF s > Len(lists) THEN <<>> ELSE lists[s] \o concat(lists, s + 1)

scrapedServer(r) ==
    LET articles == Take(concat(r.fetched, 1), scrapeLimit)
    IN  [r EXCEPT !.articles = articles, !.valid = articles, !.pc = "embedding"]

\* one promise of rssSources.slice(0, 15).map(...) of server.js settles: the
\* source's articles, or [] from its catch
sourceSettledServer(r, s) ==
    LET e == IF r.feeds[s] = Down THEN [articles |-> <<>>, uuids |-> r.uuids]
             ELSE eachItemServer(r.feeds[s].items, 1, <<>>, r.uuids)
        r1 == [r EXCEPT !.pending = @ \ {s},
                        !.down = IF r.feeds[s] = Down THEN @ \cup {s} ELSE @,
                        !.fetched = [@ EXCEPT ![s] = e.articles], !.uuids = e.uuids]
    IN  IF r1.pending = {} THEN scrapedServer(r1) ELSE r1

\* ingestNews() is called: scrapeNews sends the GET of the first source
\* (NewsIngestionService.js), or of every source at once (server.js)
StartIngest ==
    /\ ing.pc = "idle" /\ ing.run < MaxRuns
    /\ ing' = [ing EXCEPT !.run = @ + 1, !.pc = "scraping",
                          !.next = IF ing.impl = "modular" THEN 1 ELSE 0,
                          !.pending = IF ing.impl = "server"
                                      THEN 1..Min(15, Len(IngestSources)) ELSE {},
                          !.attempted = IF ing.impl = "server"
                                        THEN 1..Min(15, Len(IngestSources)) ELSE {},
                          !.down = {}, !.articles = <<>>, !.categoryCount = 0,
                          !.fetched = [s \in 1..Len(IngestSources) |-> <<>>],
                          !.valid = <<>>, !.vectors = <<>>]
    /\ UNCHANGED <<searchVars, embedVars, classifyVars, storeVars, sessionVars, queryVars, concurrentVars>>

\* const response = await axios.get(rssUrl, ...) of NewsIngestionService.js
\* is answered, or throws
SourceRepliedModular ==
    /\ ing.impl = "modular" /\ ing.pc = "scraping"
    /\ ing' = IF ing.feeds[ing.next] = Down
              THEN sourceDownModular(ing, ing.next, collection)
              ELSE sourceReadModular(ing, ing.next, collection)
    /\ UNCHANGED <<searchVars, embedVars, classifyVars, storeVars, sessionVars, queryVars, concurrentVars>>

\* one of the concurrent axios.get of server.js is answered, or throws
SourceRepliedServer ==
    /\ ing.impl = "server" /\ ing.pc = "scraping"
    /\ \E s \in ing.pending : ing' = sourceSettledServer(ing, s)
    /\ UNCHANGED <<searchVars, embedVars, classifyVars, storeVars, sessionVars, queryVars, concurrentVars>>

\* const embeddings = await this.generateEmbeddings(texts); the upsert is sent
EmbeddingsReplied ==
    /\ ing.pc = "embedding"
    /\ \E failAt \in 0..1 :
         LET texts == textsOf(ing.impl, ing.valid)
             e == IF ing.impl = "server"
                  THEN generateEmbeddings(texts, embeddingCache, failAt)
                  ELSE generateEmbeddingsModular(texts, embeddingCache, failAt)
         IN  /\ embeddingCache' = e.cache
             /\ ing' = [ing EXCEPT !.vectors = e.vectors, !.pc = "upserting"]
    /\ UNCHANGED <<searchVars, eOut, eCalls, classifyVars, storeVars, sessionVars, queryVars, concurrentVars>>

\* await qdrantClient.upsert(...) is carried out, and ingestNews returns the
\* number of articles; or it throws, and so does ingestNews
UpsertReplied ==
    /\ ing.pc = "upserting"
    /\ \E ok \in BOOLEAN :
         LET idx == IF ok THEN upsert(collection, pointsOf(ing.impl, ing.valid, ing.vectors))
                    ELSE collection
         IN  /\ collection' = idx
             /\ ing' = finished(ing, IF ok THEN "returned" ELSE "threw",
                                IF ok THEN Len(ing.valid) ELSE 0, idx)
    /\ UNCHANGED <<sCall, sOut, embedVars, classifyVars, storeVars, sessionVars, queryVars, concurrentVars>>

NextIngest ==
    \/ StartIngest
    \/ SourceRepliedModular
    \/ SourceRepliedServer
    \/ EmbeddingsReplied
    \/ UpsertReplied

SpecIngest == InitIngest /\ [][NextIngest]_vars

(***************************************************************************)
(* SessionService.getAllSessions.  KEYS gives the session keys in an order  *)
(* of the store's choosing (`sessionKeys`); `keysFailed` is whether KEYS    *)
(* was rejected, `down` the session keys whose HGETALL or LRANGE was.       *)
(***************************************************************************)
recentLimit(impl) == IF impl = "server" THEN 2 ELSE 3
titleLength == 50
previewLength == 100

\* sessionKey.replace('session:', '')
sessionIdOf(sessionKey) == SubSeq(sessionKey, Len("session:") + 1, Len(sessionKey))

\* Mutant: the oldest of the recent messages is taken.
firstMessageOf(recentMessages) ==
    IF Len(recentMessages) > 0 THEN recentMessages[1] ELSE "null"

\* recentMessages.length > 0 ? recentMessages[recentMessages.length - 1] : null
lastMessageOf(recentMessages) ==
    IF Len(recentMessages) > 0 THEN recentMessages[Len(recentMessages)] ELSE "null"

\* { sessionId, title, messageCount, lastMessage, timestamp } of one session
\* whose hash holds created_at
summaryOf(impl, r, sessionKey) ==
    LET sessionId == sessionIdOf(sessionKey)
        sessionData == r.hash[sessionKey]
        recentMessages == getSessionHistory(r, sessionId, recentLimit(impl))
        none == Len(recentMessages) = 0
        lastMessage == lastMessageOf(recentMessages)
    IN  [sessionId |-> sessionId,
         title |-> IF none THEN "New chat"
                   ELSE substring(lastMessage.content, titleLength) \o "...",
         messageCount |-> IF sessionData.message_count = Missing THEN 0
                          ELSE sessionData.message_count,
         lastMessage |-> IF none THEN "No messages yet"
                         ELSE IF impl = "server"
                         THEN substring(lastMessage.content, previewLength) \o "..."
                         ELSE lastMessage.content,
         timestamp |-> IF none THEN sessionData.created_at ELSE lastMessage.timestamp]

\* sessions.sort((a, b) => new Date(b.timestamp).getTime() - new Date(a.timestamp).getTime()):
\* a stable sort, the latest timestamp first
RECURSIVE insertByTimestamp(_, _)
insertByTimestamp(sorted, s) ==
    IF sorted = <<>> THEN <<s>>
    ELSE IF Head(sorted).timestamp >= s.timestamp
    THEN <<Head(sorted)>> \o insertByTimestamp(Tail(sorted), s)
    ELSE <<s>> \o sorted

RECURSIVE sortByTimestamp(_, _)
sortByTimestamp(sessions, n) ==
    IF n = 0 THEN <<>>
    ELSE insertByTimestamp(sortByTimestamp(sessions, n - 1), sessions[n])

\* the summaries pushed for sessionKeys from the i-th on: a session whose
\* hash has no created_at is passed over, and so is, in server.js, one whose
\* promise was rejected (Promise.allSettled)
RECURSIVE summaries(_, _, _, _, _)
summaries(impl, r, sessionKeys, down, i) ==
    IF i > Len(sessionKeys) THEN <<>>
    ELSE (IF sessionKeys[i] \notin down /\ r.hash[sessionKeys[i]].created_at # Missing
          THEN <<summaryOf(impl, r, sessionKeys[i])>> ELSE <<>>)
         \o summaries(impl, r, sessionKeys, down, i + 1)

\* this.redis.keys('session:*')
redisKeys(r, prefix) == {k \in r.keys : SubSeq(k, 1, Len(prefix)) = prefix}

\* catch (error) { return []; } of getAllSessions
sessionsUnavailable == [status |-> "ok", result |-> <<>>]

getAllSessions(impl, r, sessionKeys, keysFailed, down) ==
    IF keysFailed THEN sessionsUnavailable
    ELSE IF impl = "modular" /\ down # {} THEN sessionsUnavailable
    ELSE LET sessions == summaries(impl, r, sessionKeys, down, 1)
         IN  [status |-> "ok", result |-> sortByTimestamp(sessions, Len(sessions))]

\* What a method of SessionService other than getAllSessions gives when the
\* store rejects its first command: it has no try, so the call is rejected.
storeUnavailable(op) == [status |-> "threw", result |-> StoreErrorText]

(***************************************************************************)
(* SpecList: a client lists the sessions of a store that holds both         *)
(* sessions and their logs, and calls the service while the store is out    *)
(* of reach.                                                                *)
(***************************************************************************)
MaxListCalls == 2

\* The store after the messages of a session were added at the given times,
\* from the k-th on; their ids are base + k.
RECURSIVE loggedAt(_, _, _, _, _, _)
loggedAt(impl, r, sessionId, base, times, k) ==
    IF k > Len(times) THEN r
    ELSE LET message == newMessage(impl, base + k,
                                   IF k % 2 = 1 THEN "user" ELSE "bot",
                                   IF k % 2 = 1 THEN "hi" ELSE AnswerText, times[k])
         IN  loggedAt(impl,
                      IF impl = "server"
                      THEN addMessageServer(r, sessionId, message, times[k])
                      ELSE addMessageModular(r, sessionId, message, times[k], 3),
                      sessionId, base, times, k + 1)

\* The times of the messages of a session: one every 10 seconds from `first`.
timesFrom(first, n) == [k \in 1..n |-> first + 10 * (k - 1)]

ListStores(impl) ==
    {loggedAt(impl,
              loggedAt(impl,
                       createSession(createSession(EmptyRedis, SessionIds[1], 0, 2),
                                     SessionIds[2], c2, 2),
                       SessionIds[1], 100, timesFrom(10, n1), 1),
              SessionIds[2], 200, timesFrom(10 + d, n2), 1) :
        n1 \in 0..MaxStored, n2 \in 0..MaxStored, c2 \in {0, 5}, d \in {0, 5, 15}}

InitList ==
    /\ ssImpl \in SessionImpls
    /\ redis \in ListStores(ssImpl)
    /\ now = 60
    /\ issued = 2
    /\ ops = 0
    /\ ssOut = Idle
    /\ ssPrev = Idle
    /\ req = Idle
    /\ ing = Idle
    /\ tasks = <<>>
    /\ collection = {}
    /\ sCall = Idle
    /\ sOut = Idle
    /\ embeddingCache = <<>>
    /\ eOut = Idle
    /\ eCalls = 0
    /\ cQuery = ""
    /\ cOut = Idle

\* The orders KEYS may give the keys in.
Orders(keys) ==
    {o \in [1..Cardinality(keys) -> keys] : \A i, j \in DOMAIN o : i # j => o[i] # o[j]}

listed(call) ==
    /\ ops < MaxListCalls
    /\ ops' = ops + 1
    /\ ssPrev' = ssOut
    /\ ssOut' = call
    /\ UNCHANGED <<redis, now, issued, ssImpl, searchVars, embedVars, classifyVars,
                   queryVars, ingestVars, concurrentVars>>

\* await sessionService.getAllSessions(), while the store answers every
\* command, rejects them all, or rejects the reads of some sessions
GetAllSessions ==
    \E sessionKeys \in Orders(redisKeys(redis, "session:")), keysFailed \in BOOLEAN :
    \E down \in SUBSET Range(sessionKeys) :
        /\ keysFailed => down = Range(sessionKeys)
        /\ LET o == getAllSessions(ssImpl, redis, sessionKeys, keysFailed, down)
           IN  listed([op |-> "getAllSessions", sessionId |-> "", keys |-> sessionKeys,
                       store |-> IF keysFailed THEN "unreachable"
                                 ELSE IF down = {} THEN "reachable" ELSE "lost",
                       status |-> o.status, result |-> o.result])

\* another method of the SessionService is called while the store rejects
\* every command
CalledUnreachable ==
    \E op \in {"createSession", "addMessage", "getSessionHistory", "resetSession",
                "sessionExists"}, sessionId \in Range(SessionIds) :
        LET o == storeUnavailable(op)
        IN  listed([op |-> op, sessionId |-> sessionId, keys |-> <<>>,
                    store |-> "unreachable", status |-> o.status, result |-> o.result])

NextList == GetAllSessions \/ CalledUnreachable

SpecList == InitList /\ [][NextList]_vars

(***************************************************************************)
(* SpecConcurrent: MaxClients clients have one request each under way on   *)
(* session s1: a query exchange that has come to its storing, or a reset.  *)
(* A request asks sessionExists, then sends its commands to the store.     *)
(* The store carries out one command, or one MULTI, at a time, in any      *)
(* order between the clients, and a time to live may go by in between.     *)
(***************************************************************************)
MaxClients == 2

\* How many times addMessage awaits the store: once for the MULTI of
\* server.js, once per command in the modular class.
addMessageCommands(impl) == IF impl = "server" THEN 1 ELSE 3

\* The k-th of them is carried out.
addMessageCommand(impl, r, sessionId, message, time, k) ==
    IF impl = "server" THEN addMessageServer(r, sessionId, message, time)
    ELSE IF k = 1 THEN redisLPush(r, messagesKeyOf(sessionId), JSONstringify(message))
    ELSE IF k = 2 THEN redisHIncrBy(r, sessionKeyOf(sessionId), "message_count", 1)
    ELSE redisExpire(r, messagesKeyOf(sessionId), ttlSeconds, time)

\* resetSession: one MULTI in server.js, del then hSet in the modular class
resetSessionCommands(impl) == IF impl = "server" THEN 1 ELSE 2

resetSessionCommand(impl, r, sessionId, k) ==
    IF impl = "server" THEN resetSession(r, sessionId, 2)
    ELSE IF k = 1 THEN redisDel(r, messagesKeyOf(sessionId))
    ELSE redisHSet(r, sessionKeyOf(sessionId), [message_count |-> 0])

\* addMessage(sessionId, 'user', userMessage) and addMessage(sessionId,
\* 'bot', response) of the exchange of client c; uuidv4 gives each message
\* an id of its own
exchangeMessage(impl, c, m, time) ==
    IF m = 1 THEN newMessage(impl, 2 * c - 1, "user", "hi", time)
    ELSE newMessage(impl, 2 * c, "bot", AnswerText, time)

IdleTask == [op |-> "none", pc |-> "idle", message |-> 0, k |-> 0, status |-> 0]

InitConcurrent ==
    /\ ssImpl \in SessionImpls
    /\ \E n \in {0, 2} : redis = storedLog(ssImpl, n)
    /\ tasks = [c \in 1..MaxClients |-> IdleTask]
    /\ now = 0
    /\ issued = 1
    /\ ops = 0
    /\ ssOut = Idle
    /\ ssPrev = Idle
    /\ req = Idle
    /\ ing = Idle
    /\ collection = <<>>
    /\ sCall = Idle
    /\ sOut = Idle
    /\ embeddingCache = <<>>
    /\ eOut = Idle
    /\ eCalls = 0
    /\ cQuery = ""
    /\ cOut = Idle

\* POST /api/query or POST /api/session/reset arrives: sessionExists is sent
RequestArrives ==
    \E c \in 1..MaxClients, op \in {"exchange", "resetSession"} :
        /\ tasks[c].pc = "idle"
        /\ tasks' = [tasks EXCEPT ![c] = [@ EXCEPT !.op = op, !.pc = "sessionExists"]]
        /\ UNCHANGED <<searchVars, embedVars, classifyVars, storeVars, sessionVars,
                       queryVars, ingestVars>>

\* if (!sessionExists) return res.status(404)...; else the handler goes on
\* to its first write: the first addMessage of the exchange (after the
\* retrieval and the generation, which write nothing), or resetSession
ExistsAnswered ==
    \E c \in 1..MaxClients :
        /\ tasks[c].pc = "sessionExists"
        /\ tasks' = [tasks EXCEPT ![c] =
                        IF sessionExists(redis, SessionIds[1]) = 0
                        THEN [@ EXCEPT !.pc = "done", !.status = 404]
                        ELSE [@ EXCEPT !.pc = "writing", !.k = 1,
                                       !.message = IF tasks[c].op = "exchange" THEN 1 ELSE 0]]
        /\ UNCHANGED <<searchVars, embedVars, classifyVars, storeVars, sessionVars,
                       queryVars, ingestVars>>

\* The store carries out the command (or the MULTI) a client awaits; the
\* client sends its next one, or answers 200 after its last.
CommandDone ==
    \E c \in 1..MaxClients :
        LET t == tasks[c]
            last == IF t.op = "exchange" THEN addMessageCommands(ssImpl)
                    ELSE resetSessionCommands(ssImpl)
        IN  /\ t.pc = "writing"
            /\ redis' = IF t.op = "exchange"
                        THEN addMessageCommand(ssImpl, redis, SessionIds[1],
                                 exchangeMessage(ssImpl, c, t.message, now), now, t.k)
                        ELSE resetSessionCommand(ssImpl, redis, SessionIds[1], t.k)
            /\ tasks' = [tasks EXCEPT ![c] =
                            IF t.k < last THEN [t EXCEPT !.k = @ + 1]
                            ELSE IF t.op = "exchange" /\ t.message = 1
                            THEN [t EXCEPT !.message = 2, !.k = 1]
                            ELSE [t EXCEPT !.pc = "done", !.status = 200]]
            /\ UNCHANGED <<now, issued, ops, searchVars, embedVars, classifyVars,
                           sessionVars, queryVars, ingestVars>>

\* A time to live goes by: the keys that ran out of time are gone.
TimeToLiveElapsed ==
    /\ now = 0
    /\ now' = now + ttlSeconds
    /\ redis' = redisExpireKeys(redis, now')
    /\ UNCHANGED <<issued, ops, searchVars, embedVars, classifyVars, sessionVars,
                   queryVars, ingestVars, concurrentVars>>

NextConcurrent ==
    \/ RequestArrives
    \/ ExistsAnswered
    \/ CommandDone
    \/ TimeToLiveElapsed

SpecConcurrent == InitConcurrent /\ [][NextConcurrent]_vars

(***************************************************************************)
(* SpecPrompt: the conversation history processQuery puts in the prompt,   *)
(* for a session that holds up to MaxLog messages.  Only the history part  *)
(* of the prompt is modelled, as the text it is.                           *)
(***************************************************************************)
MaxLog == 7
serverPromptHistory == 3
modularPromptHistory == 5
historyContentLimit == 150

NoHistoryText == "No conversation history."

\* Array.prototype.slice(0, n) of the history
sliceFirst(s, n) == SubSeq(s, 1, Min(n, Len(s)))

\* Array.prototype.slice(-n)
sliceLast(s, n) == SubSeq(s, IF Len(s) > n THEN Len(s) - n + 1 ELSE 1, Len(s))

\* `${msg.role}: ${msg.content.substring(0, 150)}...` in server.js,
\* `${msg.role}: ${msg.content}` in the modular ChatService
historyLine(impl, msg) ==
    IF impl = "server"
    THEN msg.role \o ": " \o substring(msg.content, historyContentLimit) \o "..."
    ELSE msg.role \o ": " \o msg.content

\* buildOptimizedHistory(history) of server.js; history.slice(-5).map(...)
\* .join('\n') of the modular processQuery
conversationHistory(impl, history) ==
    IF impl = "server" /\ Len(history) = 0 THEN NoHistoryText
    ELSE LET recent == sliceLast(history, IF impl = "server" THEN serverPromptHistory
                                         ELSE modularPromptHistory)
         IN  join([i \in 1..Len(recent) |-> historyLine(impl, recent[i])], "\n")

\* The store after createSession and the addMessage of k messages, the
\* i-th with role roles[i] at time i; every message has its own content.
MessageNumbers == <<"1", "2", "3", "4", "5", "6", "7", "8", "9">>
RECURSIVE toldBy(_, _, _)
toldBy(impl, roles, k) ==
    IF k = 0 THEN createSession(EmptyRedis, SessionIds[1], 0, 2)
    ELSE LET message == newMessage(impl, k, roles[k], "message " \o MessageNumbers[k], k)
         IN  IF impl = "server"
             THEN addMessageServer(toldBy(impl, roles, k - 1), SessionIds[1], message, k)
             ELSE addMessageModular(toldBy(impl, roles, k - 1), SessionIds[1], message, k, 3)

InitPrompt ==
    /\ \E impl \in {"server", "modular"}, k \in 0..MaxLog :
       \E roles \in [1..k -> Roles] :
          /\ redis = toldBy(impl, roles, k)
          /\ req = [impl |-> impl, pc |-> "received", history |-> <<>>,
                    conversationHistory |-> ""]
    /\ now = MaxLog + 1
    /\ issued = 1
    /\ ops = 0
    /\ ssImpl = "server"
    /\ ssOut = Idle
    /\ ssPrev = Idle
    /\ ing = Idle
    /\ tasks = <<>>
    /\ collection = <<>>
    /\ sCall = Idle
    /\ sOut = Idle
    /\ embeddingCache = <<>>
    /\ eOut = Idle
    /\ eCalls = 0
    /\ cQuery = ""
    /\ cOut = Idle

\* getSessionHistory(sessionId, 4) or (sessionId, 10) has answered and the
\* history part of the prompt is built
BuildPrompt ==
    /\ req.pc = "received"
    /\ LET history == getSessionHistory(redis, SessionIds[1],
                                        IF req.impl = "server" THEN serverHistoryLimit
                                        ELSE modularHistoryLimit)
       IN  req' = [req EXCEPT !.pc = "prompted", !.history = history,
                              !.conversationHistory =
                                    conversationHistory(req.impl, history)]
    /\ UNCHANGED <<searchVars, embedVars, classifyVars, storeVars, sessionVars,
                   ingestVars, concurrentVars>>

NextPrompt == BuildPrompt

SpecPrompt == InitPrompt /\ [][NextPrompt]_vars

(***************************************************************************)
(* SpecBackoff: one call generateResponseWithTimeout(prompt, maxRetries),  *)
(* for every retry budget up to MaxBudget (the default is 2), with a model *)
(* that may answer, fail or stay silent at each attempt.                   *)
(***************************************************************************)
MaxBudget == 4

InitBackoff ==
    /\ \E budget \in 1..MaxBudget :
          req = [maxRetries |-> budget, attempt |-> 1, pc |-> "generating",
                 delays |-> <<>>, outcomes |-> <<>>]
    /\ redis = EmptyRedis
    /\ now = 0
    /\ issued = 0
    /\ ops = 0
    /\ ssImpl = "server"
    /\ ssOut = Idle
    /\ ssPrev = Idle
    /\ ing = Idle
    /\ tasks = <<>>
    /\ collection = <<>>
    /\ sCall = Idle
    /\ sOut = Idle
    /\ embeddingCache = <<>>
    /\ eOut = Idle
    /\ eCalls = 0
    /\ cQuery = ""
    /\ cOut = Idle

\* Promise.race([generatePromise, timeoutPromise]) settles: the text is
\* returned, or the catch throws after the last attempt and else starts the
\* wait
AttemptSettled ==
    /\ req.pc = "generating"
    /\ \E outcome \in {"text", "error", "timeout"} :
          LET r == [req EXCEPT !.outcomes = Append(@, outcome)]
          IN  req' = IF outcome = "text" THEN [r EXCEPT !.pc = "returned"]
                     ELSE IF r.attempt = r.maxRetries THEN [r EXCEPT !.pc = "threw"]
                     ELSE [r EXCEPT !.pc = "backoff",
                                    !.delays = Append(@, backoffDelay(r.attempt))]
    /\ UNCHANGED <<searchVars, embedVars, classifyVars, storeVars, sessionVars,
                   ingestVars, concurrentVars>>

\* the wait is over: attempt++ and the next generateContent
WaitOver ==
    /\ req.pc = "backoff"
    /\ req' = [req EXCEPT !.pc = "generating", !.attempt = @ + 1]
    /\ UNCHANGED <<searchVars, embedVars, classifyVars, storeVars, sessionVars,
                   ingestVars, concurrentVars>>

NextBackoff == AttemptSettled \/ WaitOver

SpecBackoff == InitBackoff /\ [][NextBackoff]_vars

(***************************************************************************)
(* SpecStartup: one initializeVectorDB call, as startServer makes it.      *)
(* Here `collection` is the index as the calls see it: whether the         *)
(* collection 'news_embeddings' exists, and the points it holds.  Each     *)
(* request to the index may be rejected for a reason of its own (the index *)
(* cannot be reached, the request times out) and then changes nothing.     *)
(***************************************************************************)
AlreadyExistsText == "already exists"
UnreachableText == "fetch failed"

NoCollection == [exists |-> FALSE, points |-> {}]

\* qdrantClient.createCollection: 409 when the collection is there
qdrantCreateCollection(idx) ==
    IF idx.exists THEN [status |-> "threw", error |-> AlreadyExistsText, idx |-> idx]
    ELSE [status |-> "ok", error |-> "", idx |-> [exists |-> TRUE, points |-> {}]]

\* qdrantClient.deleteCollection: the collection and its points are gone
qdrantDeleteCollection(idx) == [status |-> "ok", error |-> "", idx |-> NoCollection]

\* qdrantClient.getCollection: rejects when there is no such collection
qdrantGetCollection(idx) ==
    IF idx.exists THEN [status |-> "ok", error |-> "", idx |-> idx]
    ELSE [status |-> "threw", error |-> "Not found", idx |-> idx]

\* the request does not get through
rejected(idx) == [status |-> "threw", error |-> UnreachableText, idx |-> idx]

\* catch (error) of initializeVectorDB in server.js and part_003: a 409 or
\* an 'already exists' message is logged, any other error is thrown again
toleratesExisting(impl, error) == impl # "modular" /\ error = AlreadyExistsText

fieldIndexes == <<"category", "source", "publishedAt">>

InitStartup ==
    /\ \E impl \in Impls :
       \E idx \in {NoCollection} \cup {[exists |-> TRUE, points |-> c] : c \in QueryCollections} :
          /\ collection = idx
          /\ ing = [impl |-> impl, pc |-> IF impl = "modular" THEN "getCollection"
                                          ELSE "createCollection",
                    indexes |-> 0, status |-> "running", error |-> "",
                    rejected |-> {}, before |-> idx]
    /\ tasks = <<>>
    /\ embeddingCache = <<>>
    /\ sCall = Idle
    /\ sOut = Idle
    /\ eOut = Idle
    /\ eCalls = 0
    /\ cQuery = ""
    /\ cOut = Idle
    /\ redis = EmptyRedis
    /\ now = 0
    /\ issued = 0
    /\ ops = 0
    /\ ssImpl = "server"
    /\ ssOut = Idle
    /\ ssPrev = Idle
    /\ req = Idle

\* What the index answers to request `call`, or the rejection of it.
Answers(call, idx) ==
    {rejected(idx),
     CASE call = "getCollection" -> qdrantGetCollection(idx)
       [] call = "deleteCollection" -> qdrantDeleteCollection(idx)
       [] call = "createCollection" -> qdrantCreateCollection(idx)
       [] call = "createFieldIndex" -> [status |-> "ok", error |-> "", idx |-> idx]}

returned(r, o) ==
    [r EXCEPT !.rejected = @ \cup (IF o.error = UnreachableText THEN {r.pc} ELSE {})]

\* await qdrantClient.getCollection(...) of the modular service settles:
\* deleteCollection is sent, or the inner catch goes on to createCollection
CollectionLookedUp ==
    /\ ing.pc = "getCollection"
    /\ \E o \in Answers("getCollection", collection) :
          /\ collection' = o.idx
          /\ ing' = [returned(ing, o) EXCEPT
                        !.pc = IF o.status = "ok" THEN "deleteCollection"
                               ELSE "createCollection"]
    /\ UNCHANGED <<sCall, sOut, embedVars, classifyVars, storeVars, sessionVars,
                   queryVars, concurrentVars>>

\* await qdrantClient.deleteCollection(...) settles; the inner catch takes
\* a rejection for a missing collection
CollectionDeleted ==
    /\ ing.pc = "deleteCollection"
    /\ \E o \in Answers("deleteCollection", collection) :
          /\ collection' = o.idx
          /\ ing' = [returned(ing, o) EXCEPT !.pc = "createCollection"]
    /\ UNCHANGED <<sCall, sOut, embedVars, classifyVars, storeVars, sessionVars,
                   queryVars, concurrentVars>>

\* await qdrantClient.createCollection(...) settles: initializeVectorDB is
\* over in server.js and part_003, which tolerate 'already exists'; the
\* modular service throws any error again, and else creates its indexes
CollectionCreated ==
    /\ ing.pc = "createCollection"
    /\ \E o \in Answers("createCollection", collection) :
          /\ collection' = o.idx
          /\ ing' = LET r == returned(ing, o)
                    IN  IF o.status = "ok" /\ r.impl = "modular"
                        THEN [r EXCEPT !.pc = "createFieldIndex"]
                        ELSE IF o.status = "ok" \/ toleratesExisting(r.impl, o.error)
                        THEN [r EXCEPT !.pc = "done", !.status = "ok"]
                        ELSE [r EXCEPT !.pc = "done", !.status = "threw",
                                       !.error = o.error]
    /\ UNCHANGED <<sCall, sOut, embedVars, classifyVars, storeVars, sessionVars,
                   queryVars, concurrentVars>>

\* await qdrantClient.createFieldIndex(...) settles, for category, source
\* and publishedAt in turn
FieldIndexCreated ==
    /\ ing.pc = "createFieldIndex"
    /\ \E o \in Answers("createFieldIndex", collection) :
          /\ collection' = o.idx
          /\ ing' = LET r == returned(ing, o)
                    IN  IF o.status = "threw"
                        THEN [r EXCEPT !.pc = "done", !.status = "threw",
                                       !.error = o.error]
                        ELSE IF r.indexes + 1 = Len(fieldIndexes)
                        THEN [r EXCEPT !.indexes = @ + 1, !.pc = "done", !.status = "ok"]
                        ELSE [r EXCEPT !.indexes = @ + 1]
    /\ UNCHANGED <<sCall, sOut, embedVars, classifyVars, storeVars, sessionVars,
                   queryVars, concurrentVars>>

NextStartup ==
    \/ CollectionLookedUp
    \/ CollectionDeleted
    \/ CollectionCreated
    \/ FieldIndexCreated

SpecStartup == InitStartup /\ [][NextStartup]_vars

(***************************************************************************)
(* SpecCache: generateEmbeddings of server.js on an embedding cache that   *)
(* earlier calls have filled, or filled but for one entry.                 *)
(***************************************************************************)
\* The cache after n calls, the i-th for the one text "text i".
earlierTexts(i) == <<"text " \o ToString(i)>>
filledCache(n) ==
    [i \in 1..n |-> [key |-> cacheKey(earlierTexts(i)),
                     value |-> providerEmbeddings(earlierTexts(i))]]

InitCache ==
    /\ embeddingCache \in {filledCache(maxCacheSize - 1), filledCache(maxCacheSize)}
    /\ eOut = Idle
    /\ eCalls = 0
    /\ collection = {}
    /\ sCall = Idle
    /\ sOut = Idle
    /\ cQuery = ""
    /\ cOut = Idle
    /\ redis = EmptyRedis
    /\ now = 0
    /\ issued = 0
    /\ ops = 0
    /\ ssImpl = "server"
    /\ ssOut = Idle
    /\ ssPrev = Idle
    /\ req = Idle
    /\ ing = Idle
    /\ tasks = <<>>

NextCache == GenerateEmbeddingsServer

SpecCache == InitCache /\ [][NextCache]_vars

(***************************************************************************)
(* Claims about searchSimilar (SpecSearch).                                *)
(***************************************************************************)
SortedByScore(results) ==
    \A i, j \in 1..Len(results) : i < j => results[i].score >= results[j].score

\* C2: searchSimilar(query, limit) returns at most `limit` results, on the
\* general path, on the filtered path and on the supplemented path.
C2_AtMostLimit ==
    sOut.status = "returned" => Len(sOut.results) <= sCall.limit

\* A supplemented call that fills the limit out of a larger collection.
C2_Witness ==
    /\ sOut.status = "returned"
    /\ sOut.path = "supplemented"
    /\ Len(sOut.results) = sCall.limit
    /\ Cardinality(collection) > sCall.limit

\* C3 as stated: the returned sequence is sorted by non-increasing score on
\* every path.
C3_SortedOnEveryPath ==
    sOut.status = "returned" => SortedByScore(sOut.results)

\* C3 amended: the returned sequence is sorted by non-increasing score on
\* the general and the filtered path; on the supplemented path it is the
\* filtered hits, sorted, followed by the supplemental hits, sorted.
C3_SortedPerSegment ==
    sOut.status = "returned" =>
        IF sOut.path = "supplemented"
        THEN LET k == Cardinality({i \in 1..Len(sOut.results) :
                                      sOut.results[i].category = sOut.category})
             IN  /\ \A i \in 1..k : sOut.results[i].category = sOut.category
                 /\ SortedByScore(SubSeq(sOut.results, 1, k))
                 /\ SortedByScore(SubSeq(sOut.results, k + 1, Len(sOut.results)))
        ELSE SortedByScore(sOut.results)

\* A supplemented result whose supplemental hit outscores a filtered hit.
C3_Witness ==
    /\ sOut.status = "returned"
    /\ sOut.path = "supplemented"
    /\ \E i, j \in 1..Len(sOut.results) :
          /\ i < j
          /\ sOut.results[i].category = sOut.category
          /\ sOut.results[j].category # sOut.category
          /\ sOut.results[i].score < sOut.results[j].score

\* C4: on the supplemented path the result holds no id twice, is exactly
\* `limit` long when the collection holds at least `limit` points, and
\* otherwise holds every point the two searches returned (then, every point
\* of the collection).
C4_SupplementedNoDupFull ==
    (sOut.status = "returned" /\ sOut.path = "supplemented") =>
        /\ \A i, j \in 1..Len(sOut.hits) : i # j => sOut.hits[i].id # sOut.hits[j].id
        /\ Cardinality(collection) >= sCall.limit => Len(sOut.hits) = sCall.limit
        /\ Cardinality(collection) < sCall.limit => Range(sOut.hits) = collection

\* A supplemented call where both searches return the same point.
C4_Witness ==
    /\ sOut.status = "returned"
    /\ sOut.path = "supplemented"
    /\ Len(sOut.hits) = sCall.limit
    /\ \E p \in collection :
          /\ p.category = sOut.category
          /\ \A q \in collection \ {p} : q.score < p.score
    /\ \E p \in collection : p.category # sOut.category

\* C6: on the supplemented path every filtered hit (every point of the
\* detected category) is in the result, ahead of every supplemental hit;
\* and a single stored sports chunk is in the results for the NBA query.
C6_FilteredHitsFirst ==
    /\ (sOut.status = "returned" /\ sOut.path = "supplemented") =>
          /\ \A p \in collection :
                p.category = sOut.category => p \in Range(sOut.hits)
          /\ \A i, j \in 1..Len(sOut.hits) :
                (i < j /\ sOut.hits[j].category = sOut.category)
                    => sOut.hits[i].category = sOut.category
    /\ (/\ sOut.status = "returned"
        /\ sCall.impl # "server"
        /\ sCall.query = "Tell me about the NBA finals"
        /\ \E p \in collection : collection = {p} /\ p.category = "sports")
       => \E i \in 1..Len(sOut.results) : sOut.results[i].category = "sports"

\* The NBA query over one sports chunk and other chunks that score higher.
C6_Witness ==
    /\ sOut.status = "returned"
    /\ sOut.path = "supplemented"
    /\ sCall.query = "Tell me about the NBA finals"
    /\ Cardinality({p \in collection : p.category = "sports"}) = 1
    /\ \E p, q \in collection :
          p.category = "sports" /\ q.category # "sports" /\ q.score > p.score

\* C7: when an index search raises, searchSimilar fails; it never returns
\* a list (the empty one included).
C7_RaisedSearchFails ==
    (sOut.status # "idle" /\ sOut.raised) => sOut.status = "threw"

(***************************************************************************)
(* Claims about the classification step (SpecClassify).                    *)
(***************************************************************************)
\* keyword occurs in query at position i, letter case ignored
OccursAt(query, keyword, i) ==
    \A j \in 1..Len(keyword) :
        LowerChar(SubSeq(query, i + j - 1, i + j - 1)) = SubSeq(keyword, j, j)

Occurs(query, keyword) ==
    \E i \in 1..(Len(query) - Len(keyword) + 1) : OccursAt(query, keyword, i)

CategoryMatches(query, c) ==
    \E k \in 1..Len(categoryKeywords[c][2]) : Occurs(query, categoryKeywords[c][2][k])

\* C5: the category found is the first one of the table, in the order
\* sports, technology, politics, business, crypto, world, with a keyword
\* occurring in the query as a case-insensitive substring; none is found
\* exactly when no keyword of any category occurs.
C5_FirstMatchingCategory ==
    cOut # Idle =>
        /\ <<categoryKeywords[1][1], categoryKeywords[2][1], categoryKeywords[3][1],
             categoryKeywords[4][1], categoryKeywords[5][1], categoryKeywords[6][1]>>
             = <<"sports", "technology", "politics", "business", "crypto", "world">>
        /\ (cOut.category = NoCategory) <=>
              (\A c \in 1..Len(categoryKeywords) : ~CategoryMatches(cQuery, c))
        /\ \A c \in 1..Len(categoryKeywords) :
              (cOut.category = categoryKeywords[c][1]) <=>
                  /\ CategoryMatches(cQuery, c)
                  /\ \A d \in 1..(c - 1) : ~CategoryMatches(cQuery, d)

\* A query with keywords of two categories, in upper and lower case.
C5_Witness ==
    /\ cOut # Idle
    /\ cQuery = "Bitcoin stock"
    /\ cOut.category = "business"

(***************************************************************************)
(* Claims about generateEmbeddings (SpecEmbed).                            *)
(***************************************************************************)
\* C8: generateEmbeddings of server.js returns one vector per input text,
\* in input order, whether they come from the provider, the cache or the
\* fallback.
C8_OneVectorPerText ==
    (eOut # Idle /\ eOut.impl = "server") =>
        /\ eOut.status = "returned"
        /\ Len(eOut.vectors) = Len(eOut.texts)
        /\ \A i \in 1..Len(eOut.vectors) :
              eOut.vectors[i].source = "provider" => eOut.vectors[i].of = eOut.texts[i]

\* C9: when a provider request fails, generateEmbeddings does not raise; it
\* returns one synthetic vector of dimension 768 per input text.
C9_FallbackOnProviderFailure ==
    (eOut # Idle /\ eOut.providerFailed) =>
        /\ eOut.status = "returned"
        /\ Len(eOut.vectors) = Len(eOut.texts)
        /\ \A i \in 1..Len(eOut.vectors) :
              eOut.vectors[i].source = "synthetic" /\ eOut.vectors[i].dim = 768

\* The second batch of an eleven text list fails in server.js.
C9_Witness ==
    /\ eOut # Idle
    /\ eOut.impl = "server"
    /\ eOut.providerFailed
    /\ Len(eOut.texts) = batchSize + 1
    /\ eOut.requests = 2

\* A call of `op` that came back, straight after another that came back.
Did(call, op) == call.status = "ok" /\ call.op = op
AddThenHistory ==
    /\ Did(ssPrev, "addMessage")
    /\ Did(ssOut, "getSessionHistory")
    /\ ssOut.sessionId = ssPrev.sessionId
    /\ ssOut.limit = 1
CreateThenHistory ==
    /\ Did(ssPrev, "createSession")
    /\ Did(ssOut, "getSessionHistory")
    /\ ssOut.sessionId = ssPrev.sessionId

\* C10, as stated: the history of a session that was just created is empty,
\* and addMessage(s, role, content) followed by getSessionHistory(s, 1) gives
\* exactly one message, with the role and the content that were passed, for
\* every content string.
C10_HistoryEchoesContent ==
    /\ CreateThenHistory => ssOut.result = <<>>
    /\ AddThenHistory =>
          /\ Len(ssOut.result) = 1
          /\ ssOut.result[1].role = ssPrev.role
          /\ ssOut.result[1].content = ssPrev.content

\* C10, amended: the history of a session that was just created is empty,
\* and addMessage(s, role, content) followed by getSessionHistory(s, 1) gives
\* exactly one message, with the role that was passed; its content is the
\* content that was passed in the modular SessionService, and the first 2000
\* characters of it in server.js.
C10_HistoryEchoesLimitedContent ==
    /\ CreateThenHistory => ssOut.result = <<>>
    /\ AddThenHistory =>
          /\ Len(ssOut.result) = 1
          /\ ssOut.result[1].role = ssPrev.role
          /\ ssImpl = "modular" => ssOut.result[1].content = ssPrev.content
          /\ ssImpl = "server" =>
                /\ Len(ssOut.result[1].content) = Min(Len(ssPrev.content), 2000)
                /\ ssOut.result[1].content
                      = SubSeq(ssPrev.content, 1, Len(ssOut.result[1].content))

\* A message longer than 2000 characters was added in server.js and read back.
C10_Witness ==
    /\ AddThenHistory
    /\ ssImpl = "server"
    /\ Len(ssPrev.content) > 2000
    /\ Len(ssOut.result) = 1

Rejected == req.status \in {400, 404}
MissingOrEmpty(field) == field \notin DOMAIN req.body \/ req.body[field] = ""
Incomplete == MissingOrEmpty("sessionId") \/ MissingOrEmpty("message")
SessionAbsent == sessionKeyOf(req.body.sessionId) \notin req.store0.keys

\* C1: the query endpoint answers 400 to a request whose sessionId or
\* message is missing or empty, and 404 to a request whose session the store
\* says does not exist; a request answered 400 or 404 made no search, read no
\* history, asked the model nothing, added no message, was not retried, and
\* left the session store as it was.
C1_RejectedRequestsDoNothing ==
    /\ (req.pc # "received" /\ Incomplete) => req.status = 400
    /\ (req.pc = "done" /\ ~Incomplete /\ req.exists # "error" /\ SessionAbsent)
          => req.status = 404
    /\ req.status = 400 => Incomplete /\ req.existsCalls = 0
    /\ req.status = 404 => ~Incomplete /\ SessionAbsent /\ req.existsCalls = 1
    /\ Rejected =>
          /\ req.pc = "done"
          /\ req.searches = 0 /\ req.histories = 0 /\ req.news = <<>>
          /\ req.generations = 0 /\ req.attempt = 0 /\ req.delays = <<>>
          /\ req.adds = 0 /\ req.stored = 0
          /\ redis = req.store0
          /\ embeddingCache = <<>>
          /\ ~ENABLED NextQuery

\* A request with both fields, for a session that does not exist, was
\* answered 404 while the store holds the messages of another session.
C1_Witness ==
    /\ req.status = 404
    /\ ~Incomplete
    /\ req.existsCalls = 1
    /\ redis.list[messagesKeyOf(SessionIds[1])] # <<>>


\* The ids of the messages of a sequence of messages.
IdsOf(messages) == {messages[i].id : i \in 1..Len(messages)}
\* The log of the session the last call was about, as the store holds it.
LogOfCall == redis.list[messagesKeyOf(ssOut.sessionId)]
LogIds == {JSONparse(LogOfCall[i]).id : i \in 1..Len(LogOfCall)}

\* C11: for every session, every stored log and every limit >= 0,
\* getSessionHistory(s, limit) returns at most `limit` messages, they are the
\* most recently added ones of the log, and they come oldest first.
C11_HistoryAtMostLimitRecentOldestFirst ==
    Did(ssOut, "getSessionHistory") =>
        /\ Len(ssOut.result) <= ssOut.limit
        /\ Len(ssOut.result) = Min(ssOut.limit, Len(LogOfCall))
        /\ IdsOf(ssOut.result) \subseteq LogIds
        /\ \A old \in LogIds \ IdsOf(ssOut.result) :
              \A new \in IdsOf(ssOut.result) : old < new
        /\ \A i, j \in 1..Len(ssOut.result) :
              i < j => ssOut.result[i].id < ssOut.result[j].id


\* C12: for an existing session holding any number of messages,
\* resetSession(s) followed by getSessionHistory(s, limit) returns the empty
\* sequence for every limit, and sessionExists(s) is still true.
C12_ResetEmptiesLogKeepsSession ==
    /\ Did(ssOut, "resetSession") =>
          /\ \A limit \in 0..MaxHistoryLimit :
                getSessionHistory(redis, ssOut.sessionId, limit) = <<>>
          /\ sessionExists(redis, ssOut.sessionId) = 1
    /\ (Did(ssPrev, "resetSession") /\ ssOut.status = "ok"
          /\ ssOut.sessionId = ssPrev.sessionId) =>
          /\ ssOut.op = "getSessionHistory" => ssOut.result = <<>>
          /\ ssOut.op = "sessionExists" => ssOut.result = 1

\* A session whose log had just received a message was reset.
C12_Witness ==
    /\ Did(ssPrev, "addMessage")
    /\ Did(ssOut, "resetSession")
    /\ ssOut.sessionId = ssPrev.sessionId
    /\ redis.list[messagesKeyOf(ssOut.sessionId)] = <<>>
    /\ sessionKeyOf(ssOut.sessionId) \in redis.keys


\* C13: a resetSession(s) on an existing session sets its message counter
\* to 0 and leaves its session record, the created_at of the record and the
\* expiry of the record as they were: the remaining time to live of the
\* record is neither removed, shortened nor extended.
C13_ResetKeepsIdentityAndExpiry ==
    [][(/\ ops' = ops + 1
        /\ Did(ssOut', "resetSession")
        /\ sessionKeyOf(ssOut'.sessionId) \in redis.keys)
       => LET key == sessionKeyOf(ssOut'.sessionId)
          IN  /\ key \in redis'.keys
              /\ redis'.hash[key].message_count = 0
              /\ redis'.hash[key].created_at = redis.hash[key].created_at
              /\ redis'.exp[key] = redis.exp[key]
              /\ redis'.keys \ {messagesKeyOf(ssOut'.sessionId)}
                    = redis.keys \ {messagesKeyOf(ssOut'.sessionId)}]_vars

\* A session that was created, and whose time to live has partly run out,
\* was reset.
C13_Witness ==
    /\ Did(ssOut, "resetSession")
    /\ LET key == sessionKeyOf(ssOut.sessionId)
       IN  /\ key \in redis.keys
           /\ redis.hash[key].created_at # Missing
           /\ redis.hash[key].message_count = 0
           /\ redis.exp[key] # NoExpiry
           /\ redis.exp[key] - now < ttlSeconds


\* C14: every addMessage on an existing session sets the expiry of the
\* session record and of the message log to a full time to live from now, in
\* server.js and in the modular SessionService; so the session record never
\* expires before the message log.
C14_AddMessageRefreshesBothExpiries ==
    /\ (Did(ssOut, "addMessage")
          /\ redis.hash[sessionKeyOf(ssOut.sessionId)].created_at # Missing) =>
          /\ redis.exp[sessionKeyOf(ssOut.sessionId)] = now + ttlSeconds
          /\ redis.exp[messagesKeyOf(ssOut.sessionId)] = now + ttlSeconds
    /\ \A i \in 1..issued :
          (ssOut.status = "tick" /\ messagesKeyOf(SessionIds[i]) \in redis.keys
             /\ redis.exp[messagesKeyOf(SessionIds[i])] # NoExpiry)
             => sessionKeyOf(SessionIds[i]) \in redis.keys


AttemptFailed(outcome) == outcome \in {"error", "timeout"}
GenerationFailed == req.pc = "done" /\ req.status = 500 /\ req.cause = "generation"

\* C15: generateResponseWithTimeout of server.js asks the model at most
\* maxRetries (2) times, asks no more once an attempt gave the text, counts
\* an attempt that ran into the 10 s timeout as a failed one, and raises
\* exactly when every attempt of the budget has failed.
C15_BoundedAttemptsRaiseWhenAllFailed ==
    req.impl = "server" =>
        /\ req.generations <= 2
        /\ Len(req.outcomes) <= req.generations
        /\ req.generations <= Len(req.outcomes) + 1
        /\ \A i \in 1..Len(req.outcomes) :
              req.outcomes[i] = "text" => i = Len(req.outcomes) /\ req.generations = i
        /\ req.cause = "generation"
              <=> (/\ Len(req.outcomes) = 2
                   /\ \A i \in 1..2 : AttemptFailed(req.outcomes[i]))
        /\ req.cause = "generation" => GenerationFailed
        /\ (Len(req.outcomes) = 1 /\ req.outcomes[1] = "timeout") =>
              req.pc \in {"backoff", "generating"} \/ Len(req.outcomes) > 1

\* The first attempt timed out, the second gave an error, and the query
\* failed.
C15_Witness ==
    /\ req.impl = "server"
    /\ req.outcomes = <<"timeout", "error">>
    /\ GenerationFailed


\* C16: when the model never resolves, a query that has asked it does not
\* wait forever: it ends as failed with GenerationFailed, in server.js and
\* in the modular ChatService.
C16_SilentModelEndsInGenerationFailed ==
    (req.model = "silent" /\ req.pc = "generating") ~> GenerationFailed


\* The messages this query added to the log of its session.
AddedByQuery ==
    LET log == redis.list[messagesKeyOf(req.body.sessionId)]
        before == req.store0.list[messagesKeyOf(req.body.sessionId)]
    IN  {JSONparse(log[i]) : i \in 1..(Len(log) - Len(before))}

\* C17: when a query ends with GenerationFailed, the message log of its
\* session holds no bot message added by that query.
C17_FailedGenerationStoresNoBotMessage ==
    req.cause = "generation" =>
        /\ GenerationFailed
        /\ \A message \in AddedByQuery : message.role # "bot"
        /\ ~ENABLED NextQuery

\* A query of the modular service on a session with an earlier exchange
\* failed at its only generation attempt.
C17_Witness ==
    /\ req.impl = "modular"
    /\ GenerationFailed
    /\ req.outcomes = <<"error">>
    /\ Len(redis.list[messagesKeyOf(req.body.sessionId)]) = 2


Generated == Len(req.outcomes) > 0 /\ req.outcomes[Len(req.outcomes)] = "text"

\* C18: when an addMessage of the exchange fails after the model gave its
\* text, the query does not end as failed: the caller still gets the
\* generated response, in server.js and in the modular ChatService.
C18_StoreFailureKeepsResponse ==
    (Generated /\ req.storeErrors > 0 /\ req.pc = "done") =>
        /\ req.status = 200
        /\ req.content = AnswerText
        /\ req.cause = ""


\* The place of the message with this id in a log (newest first), 0 if absent.
PlaceInLog(log, id) ==
    IF \E i \in 1..Len(log) : JSONparse(log[i]).id = id
    THEN CHOOSE i \in 1..Len(log) : JSONparse(log[i]).id = id
    ELSE 0

\* C19: the user message of an exchange is appended to the log before the
\* bot response, so the log never holds the bot response of an exchange
\* without the user message it answers right before it; and the two
\* addMessage calls of an exchange run one after the other, only the search
\* and the history read being in progress together.
C19_UserBeforeBotOneAtATime ==
    /\ req.adds > 0 =>
          LET log == redis.list[messagesKeyOf(req.body.sessionId)]
              user == PlaceInLog(log, nextMessage([req EXCEPT !.stored = 0], now).id)
              bot == PlaceInLog(log, nextMessage([req EXCEPT !.stored = 1], now).id)
          IN  bot # 0 => user = bot + 1
    /\ req.adds - req.stored <= 1
    /\ req.pending # {} => req.adds = req.stored


\* C20: when the index is empty and the message has no keyword of any
\* category, so that the search finds no passage, the content of the
\* response is the fixed "no matching articles" text and its sources are the
\* empty list, in server.js and in the modular ChatService.
C20_NoPassageGivesFixedText ==
    (/\ req.status = 200
     /\ collection = {}
     /\ detectCategory(req.body.message) = NoCategory) =>
        /\ req.news = <<>>
        /\ req.sources = <<>>
        /\ req.content = NoArticlesText



\* The kind of error the step that threw stands for.
ErrorKindOf(cause) ==
    CASE cause = "search" -> "RetrievalUnavailable"
      [] cause = "history" -> "SessionStoreUnavailable"
      [] cause = "store" -> "SessionStoreUnavailable"
      [] cause = "generation" -> "GenerationFailed"
Errored == req.pc = "done" /\ req.cause # ""

\* C21: when the search or the history fetch of the retrieval fails,
\* processQuery ends as failed and the error its caller gets tells the kind
\* of the failure: it is not the error the caller gets for a failure of
\* another kind (RetrievalUnavailable, SessionStoreUnavailable,
\* GenerationFailed).
C21_RetrievalErrorKeepsItsKind ==
    /\ (req.cause \in {"search", "history"}) => Errored /\ req.thrown # ""
    /\ (Errored /\ req.cause \in {"search", "history"}) =>
          \A other \in {"search", "history", "generation"} :
              ErrorKindOf(other) # ErrorKindOf(req.cause)
                 => req.thrown # processQueryError(other)



\* The two newest messages of the session's log are this query's exchange.
ExchangeInHistory ==
    LET history == getSessionHistory(redis, req.body.sessionId, 2)
    IN  /\ Len(history) = 2
        /\ history[1].role = "user"
        /\ history[1].content = substring(req.body.message, maxMessageLength)
        /\ history[2].role = "bot"
        /\ history[2].content = req.content
        /\ {history[1], history[2]} \subseteq AddedByQuery

\* C22: the response of a successful query goes out only when the storing
\* of the exchange is over: from the moment the response is sent, with no
\* addMessage having failed, getSessionHistory on that session gives the
\* user message and the bot response of the exchange.
C22_ResponseOnlyAfterPersisting ==
    (req.status = 200 /\ req.storeErrors = 0) =>
        /\ req.stored = req.adds
        /\ ExchangeInHistory



\* The fixed texts the handlers of the query endpoint put into an error body.
GenericTexts == {RequiredText, NotFoundText, ProcessFailedText, GenerateFailedText}

\* C23: every error response of the query endpoint has a status that is
\* not 2xx and a body whose text is one of the fixed texts of the handlers:
\* the message of an exception of the store, the index, the embedding or the
\* generation provider is never in it.
C23_ErrorBodiesAreGeneric ==
    (req.pc = "done" /\ req.error # "") =>
        /\ req.status >= 400
        /\ req.error \in GenericTexts



\* C24: every point ingestNews has put into the collection has a title of
\* more than 10 characters and a content of more than 50 characters, and no
\* item of a feed whose title or description is shorter than that is in the
\* collection; in server.js and in services/NewsIngestionService.js.
C24_StoredChunksAreLongEnough ==
    /\ \A p \in collection : Len(p.title) > 10 /\ Len(p.content) > 50
    /\ \A s \in 1..Len(IngestSources) :
          \A i \in 1..Len(ing.feeds[s].items) :
              LET item == ing.feeds[s].items[i]
              IN  (Len(item.title) <= 10 \/ Len(item.description) <= 50)
                     => \A p \in collection : p.url # item.link



AllSources == 1..Len(IngestSources)
\* The items of source s that ingestNews is to store: every item in
\* server.js, the ones that are long enough in NewsIngestionService.js.
ItemsToStore(s) ==
    {i \in 1..Len(ing.feeds[s].items) :
        \/ ing.impl = "server"
        \/ /\ Len(ing.feeds[s].items[i].title) > 10
           /\ Len(ing.feeds[s].items[i].description) > 50}

C26_ReingestionKeepsIdsAndChunks ==
    (/\ Len(ing.results) = 2
     /\ \A n \in 1..2 : ing.results[n].status = "returned") =>
        /\ {p.id : p \in ing.results[2].stored} = {p.id : p \in ing.results[1].stored}
        /\ \A p, q \in ing.results[2].stored : p.url = q.url => p.id = q.id
        /\ ing.results[2].stored = ing.results[1].stored



\* The sessions the store holds: the session hashes createSession wrote.
StoredSessions ==
    {id \in Range(SessionIds) :
        /\ sessionKeyOf(id) \in redis.keys
        /\ redis.hash[sessionKeyOf(id)].created_at # Missing}
\* The newest message of the log of a session.
NewestOf(id) == JSONparse(Head(redis.list[messagesKeyOf(id)]))
HasMessages(id) == redis.list[messagesKeyOf(id)] # <<>>
\* The time of the last activity of a session.
ActivityOf(id) ==
    IF HasMessages(id) THEN NewestOf(id).timestamp
    ELSE redis.hash[sessionKeyOf(id)].created_at
Listed == ssOut.status = "ok" /\ ssOut.op = "getAllSessions" /\ ssOut.store = "reachable"

\* C27: getAllSessions returns one summary for every stored session and no
\* other, the session of the most recent activity first; the time of a
\* summary is the timestamp of the newest message of the session, or its
\* created_at when it has none, and its title and preview are made from the
\* content of that newest message.
C27_OneSummaryPerSessionLatestFirst ==
    Listed =>
        /\ Len(ssOut.result) = Cardinality(StoredSessions)
        /\ {ssOut.result[i].sessionId : i \in 1..Len(ssOut.result)} = StoredSessions
        /\ \A i, j \in 1..Len(ssOut.result) :
              i < j => ssOut.result[i].timestamp >= ssOut.result[j].timestamp
        /\ \A i \in 1..Len(ssOut.result) :
              LET summary == ssOut.result[i]
                  id == summary.sessionId
              IN  /\ summary.timestamp = ActivityOf(id)
                  /\ HasMessages(id) =>
                        /\ summary.title
                              = SubSeq(NewestOf(id).content, 1,
                                       Min(50, Len(NewestOf(id).content))) \o "..."
                        /\ summary.lastMessage
                              = IF ssImpl = "server"
                                THEN SubSeq(NewestOf(id).content, 1,
                                            Min(100, Len(NewestOf(id).content))) \o "..."
                                ELSE NewestOf(id).content
                  /\ ~HasMessages(id) =>
                        summary.title = "New chat" /\ summary.lastMessage = "No messages yet"

\* Both sessions were listed: KEYS gave the first session first, which has
\* two messages, and the second one holds the newest message and comes first.
C27_Witness ==
    /\ Listed
    /\ Len(ssOut.result) = 2
    /\ ssOut.keys[1] = sessionKeyOf(SessionIds[1])
    /\ Len(redis.list[messagesKeyOf(SessionIds[1])]) = 2
    /\ ssOut.result[1].sessionId = SessionIds[2]
    /\ ssOut.result[1].timestamp > ssOut.result[2].timestamp



\* C28: when the store cannot be reached, every call of a SessionService
\* method, getAllSessions included, fails (SessionStoreUnavailable); none
\* returns a result, such as the empty list.
C28_UnreachableStoreFailsEveryCall ==
    (ssOut.status # "idle" /\ ssOut.store = "unreachable") => ssOut.status = "threw"



\* C29: a searchSimilar(query, limit) of services/NewsIngestionService.js
\* sends the index, when the query has no keyword of any category, one
\* search without filter for `limit` candidates; else first a search
\* filtered on the first matching category for 2 * limit candidates, then
\* one search without filter for `limit` candidates if and only if the
\* filtered search gave fewer than `limit` hits, and no other search.
C29_SearchesIssued ==
    (sOut.status # "idle" /\ sCall.impl \in {"modular", "part003"}) =>
        LET category == targetCategoryOf[sCall.query]
            general == [limit |-> sCall.limit, filter |-> "null", score_threshold |-> 0]
            filtered == [limit |-> 2 * sCall.limit, filter |-> category,
                         score_threshold |-> 0]
            filteredHits == {p \in collection : p.category = category}
            fewer == Min(2 * sCall.limit, Cardinality(filteredHits)) < sCall.limit
        IN  /\ category = "null" => sOut.searches = <<general>>
            /\ category # "null" =>
                  /\ Len(sOut.searches) \in 1..2
                  /\ sOut.searches[1] = filtered
                  /\ Len(sOut.searches) = 2 => sOut.searches[2] = general
                  /\ sOut.status = "returned" => (Len(sOut.searches) = 2 <=> fewer)
                  /\ (sOut.status = "threw" /\ Len(sOut.searches) = 2) => fewer

\* A query about basketball got one sports hit from the filtered search
\* for 2 * 2 candidates, and the search without filter followed.
C29_Witness ==
    /\ sOut.status = "returned"
    /\ sCall.impl = "modular"
    /\ sCall.limit = 2
    /\ sOut.category = "sports"
    /\ Len(sOut.searches) = 2
    /\ sOut.searches[1].limit = 4
    /\ sOut.searches[2].filter = "null"
    /\ Cardinality({p \in collection : p.category = "sports"}) = 1




\* The retrieval calls of processQuery that came back with their result, and
\* whether the index search of searchSimilar came to an end without raising.
Fulfilled == {req.fulfilled[i] : i \in 1..Len(req.fulfilled)}
SearchSucceeded == "search" \in Fulfilled /\ ~req.raised

\* C30: in processQuery of server.js the retrieval search and the history
\* fetch are started in the same step; the model is not asked before both
\* have come back successfully, and is not asked at all when the search or
\* the history fetch has failed.
C30_GenerationOnlyAfterBothSucceeded ==
    req.impl = "server" =>
       /\ req.searches = req.histories
       /\ (req.pc = "retrieving") => req.generations = 0
       /\ (req.generations > 0) =>
             SearchSucceeded /\ "history" \in Fulfilled /\ req.cause # "history"
       /\ (req.raised \/ req.cause \in {"search", "history"}) => req.generations = 0




\* What another client of the store sees of session s1.
SessionKey1 == sessionKeyOf(SessionIds[1])
MessagesKey1 == messagesKeyOf(SessionIds[1])
Log1 == redis.list[MessagesKey1]

\* C31: under every interleaving of the addMessage and resetSession calls
\* of concurrent clients on one session, in every state of the store in
\* which the session hash and the message list both exist, message_count
\* is the number of messages of the list.
C31_CountIsLogLengthInEveryState ==
    (SessionKey1 \in redis.keys /\ MessagesKey1 \in redis.keys) =>
        redis.hash[SessionKey1].message_count = Len(Log1)




\* No request is between its sessionExists and its last write.
Quiescent == \A c \in 1..MaxClients : tasks[c].pc \in {"idle", "done"}

\* C35: once the requests under way are over, whatever was written and
\* whichever keys ran out of time in between (also between the
\* sessionExists of a request and its write), every session hash of the
\* store holds created_at and has an expiry.
C35_SessionRecordsKeepCreatedAtAndExpiry ==
    Quiescent =>
        \A id \in Range(SessionIds) :
            sessionKeyOf(id) \in redis.keys =>
                /\ redis.hash[sessionKeyOf(id)].created_at # Missing
                /\ redis.exp[sessionKeyOf(id)] # NoExpiry



\* The entries of the log of s1 that hold the message with this id.
EntriesOf(id) == {i \in 1..Len(Log1) : JSONparse(Log1[i]).id = id}
Exchanged(c) == tasks[c].op = "exchange" /\ tasks[c].pc = "done" /\ tasks[c].status = 200

\* C36: when the exchanges of all clients have run at the same time on one
\* session and each has stored its messages, with no reset, no expiry and no
\* store failure, the log holds the user message and the bot message of
\* each exchange exactly once, it has grown by two messages per exchange,
\* and message_count is the length of the log.
C36_ConcurrentExchangesLoseNothing ==
    (now = 0 /\ \A c \in 1..MaxClients : Exchanged(c)) =>
        /\ \A c \in 1..MaxClients :
              /\ Cardinality(EntriesOf(2 * c - 1)) = 1
              /\ Cardinality(EntriesOf(2 * c)) = 1
        /\ Cardinality({i \in 1..Len(Log1) : JSONparse(Log1[i]).id >= 1}) = 2 * MaxClients
        /\ redis.hash[SessionKey1].message_count = Len(Log1)
        /\ Len(Log1) \in {2 * MaxClients, 2 * MaxClients + 2}

\* Two exchanges have stored their messages, and the bot message of one was
\* stored between the two messages of the other.
C36_Witness ==
    /\ now = 0 /\ \A c \in 1..MaxClients : Exchanged(c)
    /\ \E i \in EntriesOf(1), j \in EntriesOf(2), k \in EntriesOf(4) : j < k /\ k < i




\* The messages of s1 from the oldest to the newest (LPUSH puts the newest
\* first), and the lines the last n of them make in a prompt.
Chronological == [i \in 1..Len(Log1) |-> JSONparse(Log1[Len(Log1) + 1 - i])]
RECURSIVE LinesFrom(_, _)
LinesFrom(impl, i) ==
    IF i > Len(Log1) THEN ""
    ELSE historyLine(impl, Chronological[i])
            \o (IF i < Len(Log1) THEN "\n" \o LinesFrom(impl, i + 1) ELSE "")
PromptLimit(impl) == IF impl = "server" THEN 3 ELSE 5

\* C32: the conversation history of the prompt is made of the most recent
\* min(N, k) of the k messages of the session, from the oldest of them to
\* the newest, each once (N = 3 in server.js, 5 in the modular
\* ChatService); with no message there is no message line.
C32_PromptHoldsMostRecentMessagesInOrder ==
    req.pc = "prompted" =>
        LET k == Len(Log1)
            n == Min(PromptLimit(req.impl), k)
        IN  IF k = 0 THEN req.conversationHistory \in {"", NoHistoryText}
            ELSE req.conversationHistory = LinesFrom(req.impl, k - n + 1)

\* A session with more messages than are fetched: the prompt starts at the
\* third newest (server.js) or the fifth newest (modular) message.
C32_Witness ==
    /\ req.pc = "prompted"
    /\ Len(Log1) > PromptLimit(req.impl) + 1
    /\ req.conversationHistory = LinesFrom(req.impl, Len(Log1) - PromptLimit(req.impl) + 1)
    /\ req.conversationHistory # LinesFrom(req.impl, Len(Log1) - PromptLimit(req.impl))




\* C33: generateResponseWithTimeout waits between two failed attempts with
\* exponential backoff: for any retry budget each wait is twice the wait
\* before it, there is one wait after every failed attempt but the last,
\* and none after the last.
C33_BackoffDoubles ==
    /\ \A i \in 2..Len(req.delays) : req.delays[i] = 2 * req.delays[i - 1]
    /\ req.pc = "backoff" => Len(req.delays) = req.attempt
    /\ req.pc = "threw" => Len(req.delays) = req.maxRetries - 1




\* initializeVectorDB is over, and the collection was there when it began.
StartedOnExisting == ing.pc = "done" /\ ing.before.exists

\* C34: initializeVectorDB never throws the 'already exists' error of the
\* index, in any variant: called on an existing collection it returns
\* unless a request to the index was rejected for another reason, and what
\* it throws is that other error.
C34_ExistingCollectionIsTolerated ==
    StartedOnExisting =>
        /\ ing.rejected = {} => ing.status = "ok"
        /\ ing.status = "threw" => ing.error # AlreadyExistsText



\* C37: initializeVectorDB of services/NewsIngestionService.js, as
\* startServer calls it, leaves the points of a collection that already
\* exists as they were.
C37_StartupKeepsStoredPoints ==
    (StartedOnExisting /\ ing.impl = "modular") =>
        collection.exists /\ collection.points = ing.before.points




\* The vectors are the ones the provider computes for these texts.
FromProvider(vectors, texts) ==
    /\ Len(vectors) = Len(texts)
    /\ \A j \in 1..Len(vectors) :
          vectors[j].source = "provider" /\ vectors[j].of = texts[j]
ServerCall(call) == call # Idle /\ call.impl = "server"

\* C39: the embedding cache of server.js never holds a synthetic vector:
\* every entry is what the provider answered, without a failure, for a
\* list of texts with the key of the entry; and the call for the same texts
\* that follows a failed one, with the provider back, returns provider
\* vectors.
C39_CacheHoldsProviderVectorsOnly ==
    /\ [](\A e \in 1..Len(embeddingCache) :
             \E texts \in TextLists :
                 /\ cacheKey(texts) = embeddingCache[e].key
                 /\ FromProvider(embeddingCache[e].value, texts))
    /\ [][(/\ ServerCall(eOut) /\ eOut.providerFailed
           /\ ServerCall(eOut') /\ eOut'.texts = eOut.texts /\ ~eOut'.providerFailed)
          => \A j \in 1..Len(eOut'.vectors) : eOut'.vectors[j].source = "provider"]_vars

\* A call of server.js has failed at its second batch, after another call
\* filled the cache: the cache has no entry for the texts of the failed one.
C39_Witness ==
    /\ ServerCall(eOut) /\ eOut.providerFailed /\ eOut.requests = 2
    /\ Len(embeddingCache) >= 1
    /\ ~MapHas(embeddingCache, cacheKey(eOut.texts))




\* C38: the embedding cache of server.js never holds more than
\* maxCacheSize entries, and a call that puts a new entry into a full cache
\* removes the entry that was put in first and no other.
C38_CacheIsBoundedAndEvictsOldest ==
    /\ [](Len(embeddingCache) <= maxCacheSize)
    /\ [][(Len(embeddingCache) = maxCacheSize /\ embeddingCache' # embeddingCache)
          => /\ Len(embeddingCache') = maxCacheSize
             /\ \A i \in 1..(maxCacheSize - 1) : embeddingCache'[i] = embeddingCache[i + 1]
             /\ \A i \in 1..maxCacheSize :
                   embeddingCache[i].key # embeddingCache'[maxCacheSize].key]_vars

\* Two entries were put into the full cache: the two oldest are gone and
\* the one put in third is now the oldest.
C38_Witness ==
    /\ Len(embeddingCache) = maxCacheSize
    /\ embeddingCache[1].key = cacheKey(earlierTexts(3))
    /\ eCalls >= 2

=============================================================================
